---- MODULE Spec2Model ----
(***************************************************************************)
(* A model of the titancore server core (crate tc-core):                   *)
(*   - database/pool.rs, connection.rs, db.rs : the connection pool, its   *)
(*     guards and the DatabaseHandle calls that run over it  (SpecPool)    *)
(*   - database/cache.rs : the prepared statement cache      (SpecCache)   *)
(*   - server/connection.rs, server.rs : the connection registry, the      *)
(*     per-connection outbound channels and the broadcasts   (SpecReg)     *)
(* Each specification moves the variables of its own subsystem and leaves  *)
(* the variables of the other subsystems at their initial values.          *)
(***************************************************************************)
EXTENDS Integers, Sequences, FiniteSets, TLC

VARIABLES
    \* ---- ConnectionPool (pool.rs:53-63) ----
    cfg,            \* PoolConfig: [max_connection, min_connections]
    permits,        \* available permits of `sem`
    connections,    \* the idle deque, a sequence of PooledConnections
    pushback,       \* the connections held by spawned push-back tasks (pool.rs:148-150)
    shutdown,       \* the AtomicBool `shutdown`
    active_count,   \* the AtomicUsize `active_count`
    total_created,  \* the AtomicUsize `total_created`
    \* ---- callers of DatabaseHandle (db.rs) ----
    pc,             \* where each client is inside its call
    op,             \* the call a client is in: "query" or "transaction"
    guard,          \* the connection inside the client's ConnectionGuard, NoConn if none
    result,         \* what the call returned (while pc = "done"), or what it will return
    sd_pc,          \* where the caller of ConnectionPool::shutdown is
    \* ---- the database as seen through transactions ----
    db,             \* committed rows <<p, k>>: statement k of client p's latest transaction
    tx_n,           \* number of statements executed inside the client's latest transaction
    \* ---- PreparedStatementCache (cache.rs:37-42) ----
    capacity,       \* the field `capacity`
    entries,        \* the map `entries`: key -> [sql, last_used, use_count]
    hits,           \* the field `hits`
    misses,         \* the field `misses`
    now,            \* the last value Instant::now() returned
    \* ---- what was done to the cache so far (history, not program state) ----
    used_at,        \* SQL text -> the time of its last insert or get hit, 0 if never inserted
    inserts,        \* number of insert calls
    reinserted,     \* some insert carried a text that had been inserted before
    cleared,        \* clear was called
    \* ---- the server and its ConnectionRegistry (server.rs, server/connection.rs) ----
    next_id,        \* ConnectionId's COUNTER: the ids handed out so far are 1..next_id
    life,           \* where handle_connection / read_loop of each connection is
    registry,       \* the keys of ConnectionRegistry::connections
    rw_readers,     \* the calls holding a read lock of the registry's RwLock
    queue,          \* per connection, the frames buffered in its outbound channel
    wtask,          \* per connection, its write task: none, running, failed, finished
    call,           \* per connection, the registry call its handler is making
    \* ---- the connection tasks in detail (server.rs:163-236) ----
    run_pc,         \* where Server::run is: accepting, or returned
    ret,            \* per connection, why its read_loop returned: none while it runs
    w_bytes,        \* per connection, the frame its write task holds between recv and write_all
    enq,            \* per connection, the frames enqueued on its channel so far (history)
    sock,           \* per connection, the frames written to its socket so far (history)
    \* ---- the migration engine (migration.rs) ----
    migrations,     \* MigrationRegistry::migrations: version -> [down: the migration has a down script]
    records,        \* the _migrations table: version -> number of rows with that version
    schema,         \* the versions whose up script's effects are committed and not reverted
    m_pc,           \* per migrator, where its migrate_to is
    m_todo,         \* per migrator, the migrations its loop has still to apply or revert
    m_up,           \* per migrator, whether it is in migrate_up (else migrate_down)
    m_row,          \* per migrator, whether the DELETE of its open transaction found a row
    m_eff,          \* per migrator, whether the script of its open transaction changed anything
    report,         \* per migrator, the MigrationReport of its call
    m_result,       \* per migrator, what its call returned: none, Ok, Err
    m_log,          \* per migrator, the <<target, result>> of its calls so far (history)
    \* ---- the auth server on one connection (tc-server-auth, server.rs:203-228) ----
    a_pc,           \* where read_loop is: read, handle, returned, panicked
    a_frame,        \* the bytes the last read returned
    a_packet,       \* the LogonPacket decoded from them
    a_req,          \* what the request decoder (TryFrom<LogonPacket>) made of the packet
    a_out,          \* the frames sent to the client so far
    a_hist,         \* the frames handled so far (history)
    \* ---- SRP6 (tc-core/src/crypto/srp6.rs) ----
    srp_in,         \* the arguments of the computation
    srp_out,        \* what it returned
    \* ---- account creation (tc-server-api/src/routes/account.rs) ----
    accounts,       \* the rows of table account, in insertion order
    acct_unique,    \* whether the table has a unique index on username
    realmcharacters,\* the account ids that have rows in table realmcharacters
    acct_req,       \* per request: its input, position and response
    \* ---- the pool's health check (pool.rs:203-237) with time ----
    hc_cfg,         \* PoolConfig: min_connections, idle_timeout, health_check_interval
    hc_idle,        \* ConnectionPool::connections: the idle connections, front first
    hc_active,      \* the connections held by guards
    hc_age,         \* per connection, last_used.elapsed() (counted up to the timeout + 1)
    hc_idle_for,    \* per connection, the time since it entered the idle set (history)
    hc_pc,          \* where health_check_loop is: loop, select, check, exited
    hc_sleep,       \* what is left of the sleep of the select
    hc_woken,       \* shutdown_notify woke the waiter of the select
    hc_shutdown,    \* where shutdown is: no, notified, cleared
    hc_last,        \* what the last health check did (history)
    \* ==== the parts modelled on their own ====
    \* ---- SignalWaiter (core/src/platform/signal.rs) ----
    sw_pc,          \* where SignalWaiter::wait is: idle, spawned, select, returned
    sw_woken,       \* the Notified future of the select was woken by notify_waiters
    sg_pc,          \* the spawned signal task: none, start, sigint, listening, notify, done
    sg_pending,     \* the signals delivered that the task's streams have not yielded yet
    sg_signals,     \* the signals delivered to the process since wait was called
    sw_process,     \* the process: running, or killed by a signal nobody handles
    srv_polls,      \* how often the server task was polled (counted up to MaxPolls)
    \* ---- the pool's cache statistics (pool.rs:133-141, 239-255) ----
    cs_where,       \* per pooled connection: none (not created), idle, or held by a guard
    cs_cached,      \* per connection, the SQL texts in its PreparedStatementCache
    cs_hits,        \* per connection, the field `hits` of its cache
    cs_misses,      \* per connection, the field `misses` of its cache
    total_cache_hits, \* the AtomicU64 `total_cache_hits`
    total_cache_misses, \* the AtomicU64 `total_cache_misses`
    cs_lookups,     \* per connection, the cache lookups made on it so far (history)
    cs_returned,    \* per connection, the lookups made up to its last return (history)
    cs_returns,     \* per connection, how often it was returned to the pool (history)
    \* ---- Server of the older core crate (core/src/server/server.rs) ----
    os_clients,     \* Server::clients: the ids of the Clients in the Vec, in order
    os_next_id,     \* Server::next_id
    os_task,        \* per client id, its read and write tasks: none, alive, aborting, finished
    os_mutex,       \* the Mutex of clients: 0 when free, else the depth of the frame holding the guard
    os_stack,       \* the frames of the call the owner of the Server is making, innermost last
    os_ret,         \* what the last call returned: none, Ok, Err
    \* ---- acquire and the health check on the lock of the idle deque (pool.rs:96-131, 214-237) ----
    al_pc,          \* per caller of acquire: idle, sem, lock, create, guard
    al_result,      \* per caller, what its last acquire returned: none, Guard, or the error kind
    al_permits,     \* the available permits of `sem`
    al_deque,       \* the number of connections in the idle deque
    al_mutex,       \* the Mutex of the idle deque: free, or health while run_health_check holds it
    al_hc,          \* where the health check task is: sleep, lock, probe
    al_todo,        \* the connections run_health_check has still to pop and probe
    al_healthy,     \* the length of `healthy` in run_health_check
    al_push,        \* the connections held by spawned push-back tasks
    al_created,     \* the AtomicUsize `total_created`
    al_shutdown,    \* the AtomicBool `shutdown`
    \* ---- the registry's RwLock with its queue of waiters (server/connection.rs:24-75) ----
    rs_map,         \* the keys of ConnectionRegistry::connections
    rs_chan,        \* per connection, the frames buffered in its outbound channel
    rs_reading,     \* per connection, whether its peer still reads what is written to it
    rs_readers,     \* the calls that hold a read guard of the RwLock
    rs_waitq,       \* the calls waiting for the RwLock, first come first: <<connection, mode>>
    rs_pc,          \* per connection, where its task is: new, reg_wait, reading, call_wait, sending, unreg_wait, closed
    rs_call         \* per connection, the registry call of its handler: kind, target, and whom it has still to send to

poolVars == <<cfg, permits, connections, pushback, shutdown, active_count,
              total_created, pc, op, guard, result, sd_pc, db, tx_n>>

cacheVars == <<capacity, entries, hits, misses, now, used_at, inserts, reinserted, cleared>>

regVars == <<next_id, life, registry, rw_readers, queue, wtask, call>>

connVars == <<run_pc, ret, w_bytes, enq, sock>>

migVars ==
    <<migrations, records, schema, m_pc, m_todo, m_up, m_row, m_eff, report, m_result, m_log>>

authVars == <<a_pc, a_frame, a_packet, a_req, a_out, a_hist>>

\* The parts of the program outside tc-core's database and server modules.
srpVars == <<srp_in, srp_out>>
acctVars == <<accounts, acct_unique, realmcharacters, acct_req>>
healthVars == <<hc_cfg, hc_idle, hc_active, hc_age, hc_idle_for, hc_pc, hc_sleep, hc_woken,
                hc_shutdown, hc_last>>
\* The variable groups of the parts modelled on their own.
sigVars == <<sw_pc, sw_woken, sg_pc, sg_pending, sg_signals, sw_process, srv_polls>>
statVars == <<cs_where, cs_cached, cs_hits, cs_misses, total_cache_hits, total_cache_misses, cs_lookups, cs_returned, cs_returns>>
oldVars == <<os_clients, os_next_id, os_task, os_mutex, os_stack, os_ret>>
lockVars == <<al_pc, al_result, al_permits, al_deque, al_mutex, al_hc, al_todo, al_healthy, al_push, al_created, al_shutdown>>
stallVars == <<rs_map, rs_chan, rs_reading, rs_readers, rs_waitq, rs_pc, rs_call>>
extVars == <<sigVars, statVars, oldVars, lockVars, stallVars>>
appVars == <<authVars, srpVars, acctVars, healthVars, extVars>>

vars == <<poolVars, cacheVars, regVars, connVars, migVars, appVars>>

\* What the pool's steps leave alone.
nonPoolVars == <<cacheVars, regVars, connVars, migVars, appVars>>
\* What the cache's steps leave alone.
nonCacheVars == <<poolVars, regVars, connVars, migVars, appVars>>
\* What the server's steps leave alone.
nonRegVars == <<poolVars, cacheVars, connVars, migVars, appVars>>
\* What the migration engine's steps leave alone.
nonMigVars == <<poolVars, cacheVars, regVars, connVars, appVars>>
\* What the steps outside tc-core's database and server modules leave alone.
coreVars == <<poolVars, cacheVars, regVars, connVars, migVars>>
nonAuthVars == <<srpVars, acctVars, healthVars, coreVars, extVars>>
nonSrpVars == <<authVars, acctVars, healthVars, coreVars, extVars>>
nonAcctVars == <<authVars, srpVars, healthVars, coreVars, extVars>>
nonHealthVars == <<authVars, srpVars, acctVars, coreVars, extVars>>
\* What the steps of each part modelled on its own leave alone.
baseVars == <<coreVars, authVars, srpVars, acctVars, healthVars>>
nonSigVars == <<baseVars, statVars, oldVars, lockVars, stallVars>>
nonStatVars == <<baseVars, sigVars, oldVars, lockVars, stallVars>>
nonOldVars == <<baseVars, sigVars, statVars, lockVars, stallVars>>
nonLockVars == <<baseVars, sigVars, statVars, oldVars, stallVars>>
nonStallVars == <<baseVars, sigVars, statVars, oldVars, lockVars>>

\* ---------------------------------------------------------------- bounds
NumClients == 2
NumTxClients == 1
MaxConnCfg == 2
MaxMinCfg == 2
MaxCreated == 3
MaxStmts == 1
NumSql == 3
MaxCap == 2
MaxCacheOps == 5
MaxConns == 2
ChanCap == 1
NumCallers == 1
NumPeers == 1
MaxFrames == 2
NumVersions == 2
NumMigrators == 2
MaxCalls == 3

Clients == 1..NumClients
\* The clients that call DatabaseHandle::transaction in SpecTx.
TxClients == 1..NumTxClients

\* Option<PooledConnection>: None, and a connection as PooledConnection::new
\* makes it (connection.rs:17-25); connections are not told apart here.
NoConn == "none"
NewConn == "conn"

\* ------------------------------------------------------------ pool: new
\* ConnectionPool::new: a semaphore of max_connection permits, and
\* min_connections connections created up front and pushed on the deque.
PoolNew(max, min) ==
    /\ cfg = [max_connection |-> max, min_connections |-> min]
    /\ permits = max
    /\ connections = [i \in 1..min |-> NewConn]
    /\ total_created = min
    /\ pushback = <<>>
    /\ shutdown = FALSE
    /\ active_count = 0

\* No DatabaseHandle call is in flight.
InitClients ==
    /\ pc = [p \in Clients |-> "idle"]
    /\ op = [p \in Clients |-> "none"]
    /\ guard = [p \in Clients |-> NoConn]
    /\ result = [p \in Clients |-> "none"]
    /\ sd_pc = "idle"
    /\ db = {}
    /\ tx_n = [p \in Clients |-> 0]

\* A PreparedStatementCache that nobody uses: PreparedStatementCache::new.
CacheNew(c) ==
    /\ capacity = c
    /\ entries = <<>>
    /\ hits = 0
    /\ misses = 0
    /\ now = 0
    /\ used_at = [q \in 1..NumSql |-> 0]
    /\ inserts = 0
    /\ reinserted = FALSE
    /\ cleared = FALSE

ConnIds == 1..MaxConns

\* A registry call that is not being made.
NoCall == [status |-> "none", kind |-> "none", arg |-> {}, reg |-> {}, todo |-> {},
           sent |-> [t \in ConnIds |-> 0]]

\* The write task holds no frame.
NoFrame == <<>>

\* Server::new, server.rs:155-161 (and ConnectionRegistry::new): an empty
\* registry, no connection accepted yet.
ServerNew ==
    /\ next_id = 0
    /\ life = [c \in ConnIds |-> "new"]
    /\ registry = {}
    /\ rw_readers = {}
    /\ queue = [c \in ConnIds |-> <<>>]
    /\ wtask = [c \in ConnIds |-> "none"]
    /\ call = [c \in ConnIds |-> NoCall]
    /\ run_pc = "accepting"
    /\ ret = [c \in ConnIds |-> "none"]
    /\ w_bytes = [c \in ConnIds |-> NoFrame]
    /\ enq = [c \in ConnIds |-> <<>>]
    /\ sock = [c \in ConnIds |-> <<>>]

\* The versions migrations can have, the callers of the migration engine.
Versions == 0..NumVersions
Migrators == 1..NumMigrators

\* MigrationReport::new, migration.rs:154-162.
NewReport(initial, target) ==
    [initial_version |-> initial, target_version |-> target, final_version |-> initial,
     applied |-> <<>>, reverted |-> <<>>]

\* MigrationMigrator::new, migration.rs:203-209, over the registry reg and a
\* database whose _migrations table is empty: no call made yet.
MigratorNew(reg) ==
    /\ migrations = reg
    /\ records = [v \in Versions |-> 0]
    /\ schema = {}
    /\ m_pc = [m \in Migrators |-> "idle"]
    /\ m_todo = [m \in Migrators |-> <<>>]
    /\ m_up = [m \in Migrators |-> TRUE]
    /\ m_row = [m \in Migrators |-> FALSE]
    /\ m_eff = [m \in Migrators |-> FALSE]
    /\ report = [m \in Migrators |-> NewReport(0, 0)]
    /\ m_result = [m \in Migrators |-> "none"]
    /\ m_log = [m \in Migrators |-> <<>>]

\* A migration engine that nobody uses, with an empty registry.
MigUnused == MigratorNew(<<>>)

\* No packet decoded, no request decoded.
NoPacket == [status |-> "none"]
NoRequest == [status |-> "none"]

\* A connection just accepted: read_loop is about to read (server.rs:215).
AuthNew ==
    /\ a_pc = "read"
    /\ a_frame = <<>>
    /\ a_packet = NoPacket
    /\ a_req = NoRequest
    /\ a_out = <<>>
    /\ a_hist = <<>>

\* No SRP6 computation asked for, none done.
NoInput == [kind |-> "none"]
NoOutput == [status |-> "none"]
SrpUnused == srp_in = NoInput /\ srp_out = NoOutput

\* The most create_account requests in flight.
NumRequests == 2
Requests == 1..NumRequests

\* No account, no request.
AcctUnused ==
    /\ accounts = <<>>
    /\ acct_unique = FALSE
    /\ realmcharacters = {}
    /\ acct_req = [r \in Requests |-> [pc |-> "none"]]

\* The most connections of the pool whose health is checked.
MaxHealthConns == 2
HealthConns == 1..MaxHealthConns

\* A pool whose health check is not looked at.
HealthUnused ==
    /\ hc_cfg = [min_connections |-> 0, idle_timeout |-> 0, health_check_interval |-> 0]
    /\ hc_idle = <<>>
    /\ hc_active = {}
    /\ hc_age = [c \in HealthConns |-> 0]
    /\ hc_idle_for = [c \in HealthConns |-> 0]
    /\ hc_pc = "loop"
    /\ hc_sleep = 0
    /\ hc_woken = FALSE
    /\ hc_shutdown = "no"
    /\ hc_last = [idle_drops |-> 0, healthy |-> 0]

\* The parts modelled on their own, unused.
\* SignalWaiter::new, signal.rs:10-14: wait not called yet.
SignalNew ==
    /\ sw_pc = "idle"
    /\ sw_woken = FALSE
    /\ sg_pc = "none"
    /\ sg_pending = {}
    /\ sg_signals = 0
    /\ sw_process = "running"
    /\ srv_polls = 0

\* A SignalWaiter nobody waits on.
SignalUnused == SignalNew

\* The most connections of the pool whose statistics are counted.
NumStatConns == 2
StatConns == 1..NumStatConns

\* ConnectionPool::new, pool.rs:66-76: no connection yet, the totals are 0.
StatNew ==
    /\ cs_where = [c \in StatConns |-> "none"]
    /\ cs_cached = [c \in StatConns |-> {}]
    /\ cs_hits = [c \in StatConns |-> 0]
    /\ cs_misses = [c \in StatConns |-> 0]
    /\ total_cache_hits = 0
    /\ total_cache_misses = 0
    /\ cs_lookups = [c \in StatConns |-> 0]
    /\ cs_returned = [c \in StatConns |-> 0]
    /\ cs_returns = [c \in StatConns |-> 0]

\* A pool whose statistics nobody looks at.
StatUnused == StatNew

\* The most clients the older Server accepts.
NumOldClients == 2
OldClients == 1..NumOldClients

\* Server::new, core/src/server/server.rs:18-26: no client, no call.
OldServerNew ==
    /\ os_clients = <<>>
    /\ os_next_id = 0
    /\ os_task = [c \in OldClients |-> "none"]
    /\ os_mutex = 0
    /\ os_stack = <<>>
    /\ os_ret = "none"

\* An older Server nobody uses.
OldServerUnused == OldServerNew

\* The callers of acquire, max_connection and the most connections created
\* where the lock of the idle deque is looked at.
NumLockClients == 2
LockMaxConnection == 1
LockMaxCreated == 2
LockClients == 1..NumLockClients

\* ConnectionPool::new, pool.rs:66-94, with min_connections = 0: an empty
\* deque, max_connection permits, the health check task spawned.
LockNew ==
    /\ al_pc = [p \in LockClients |-> "idle"]
    /\ al_result = [p \in LockClients |-> "none"]
    /\ al_permits = LockMaxConnection
    /\ al_deque = 0
    /\ al_mutex = "free"
    /\ al_hc = "sleep"
    /\ al_todo = 0
    /\ al_healthy = 0
    /\ al_push = 0
    /\ al_created = 0
    /\ al_shutdown = FALSE

\* A pool whose deque lock nobody looks at.
LockUnused == LockNew

\* The connections where the queue of the RwLock is looked at.
NumStallConns == 3
StallConns == 1..NumStallConns

\* No registry call.
IdleCall == [kind |-> "none", target |-> 0, todo |-> {}]

\* Server::new with ConnectionRegistry::new (connection.rs:28-32): an empty
\* map, no connection accepted yet.
StallNew ==
    /\ rs_map = {}
    /\ rs_chan = [c \in StallConns |-> 0]
    /\ rs_reading = [c \in StallConns |-> TRUE]
    /\ rs_readers = {}
    /\ rs_waitq = <<>>
    /\ rs_pc = [c \in StallConns |-> "new"]
    /\ rs_call = [c \in StallConns |-> IdleCall]

\* A registry whose lock queue nobody looks at.
StallUnused == StallNew

ExtUnused == SignalUnused /\ StatUnused /\ OldServerUnused /\ LockUnused /\ StallUnused

\* The parts outside tc-core, unused.
AppUnused == AuthNew /\ SrpUnused /\ AcctUnused /\ HealthUnused /\ ExtUnused

\* A pool that nobody uses (in the specifications of the other subsystems).
PoolUnused == PoolNew(1, 0) /\ InitClients

\* A cache that nobody uses.
CacheUnused == CacheNew(0)

\* Everything but the parts modelled on their own, unused.
BaseUnused ==
    /\ PoolUnused /\ CacheUnused /\ ServerNew /\ MigUnused
    /\ AuthNew /\ SrpUnused /\ AcctUnused /\ HealthUnused

\* Everything but one of the parts modelled on their own, unused.
NonSigUnused == BaseUnused /\ StatUnused /\ OldServerUnused /\ LockUnused /\ StallUnused
NonStatUnused == BaseUnused /\ SignalUnused /\ OldServerUnused /\ LockUnused /\ StallUnused
NonOldUnused == BaseUnused /\ SignalUnused /\ StatUnused /\ LockUnused /\ StallUnused
NonLockUnused == BaseUnused /\ SignalUnused /\ StatUnused /\ OldServerUnused /\ StallUnused
NonStallUnused == BaseUnused /\ SignalUnused /\ StatUnused /\ OldServerUnused /\ LockUnused

InitPool ==
    /\ \E max \in 1..MaxConnCfg, min \in 0..MaxMinCfg : PoolNew(max, min)
    /\ InitClients
    /\ CacheUnused
    /\ ServerNew
    /\ MigUnused
    /\ AppUnused

dbVars == <<db, tx_n>>
poolState == <<cfg, permits, connections, pushback, shutdown, active_count, total_created>>

\* The rows that statements 1..n of client p's transaction write. The rows of
\* a client's earlier transactions are forgotten when it calls again.
Rows(p, n) == {<<p, k>> : k \in 1..n}

\* -------------------------------------------------------- pool: acquire
\* Mutant of AcquireEnter: the shutdown flag is not read.
AcquireEnter_NoShutdownCheck(p, o) ==
    /\ pc[p] = "idle"
    /\ op' = [op EXCEPT ![p] = o]
    /\ tx_n' = [tx_n EXCEPT ![p] = 0]
    /\ db' = db \ Rows(p, MaxStmts)
    /\ pc' = [pc EXCEPT ![p] = "acq_sem"]
    /\ result' = [result EXCEPT ![p] = "none"]
    /\ UNCHANGED <<nonPoolVars, poolState, guard, sd_pc>>

\* acquire, lines 97-102: the shutdown flag is read first.
AcquireEnter(p, o) ==
    /\ pc[p] = "idle"
    /\ op' = [op EXCEPT ![p] = o]
    /\ tx_n' = [tx_n EXCEPT ![p] = 0]
    /\ db' = db \ Rows(p, MaxStmts)
    /\ IF shutdown
         THEN /\ pc' = pc
              /\ result' = [result EXCEPT ![p] = "Shutdown"]
         ELSE /\ pc' = [pc EXCEPT ![p] = "acq_sem"]
              /\ result' = [result EXCEPT ![p] = "none"]
    /\ UNCHANGED <<nonPoolVars, poolState, guard, sd_pc>>

\* Mutant of AcquirePermit: admission does not wait for a free permit.
AcquirePermit_NoWait(p) ==
    /\ pc[p] = "acq_sem"
    /\ permits' = IF permits > 0 THEN permits - 1 ELSE 0
    /\ pc' = [pc EXCEPT ![p] = "acq_pop"]
    /\ UNCHANGED <<nonPoolVars, cfg, connections, pushback, shutdown, active_count, total_created,
                   op, guard, result, sd_pc, dbVars>>

\* Mutant of AcquirePermit: the timeout path of acquire also keeps going.
AcquirePermit_AfterTimeout(p) ==
    /\ pc[p] = "acq_sem"
    /\ permits' = IF permits > 0 THEN permits - 1 ELSE permits
    /\ result' = [result EXCEPT ![p] = IF permits > 0 THEN @ ELSE "Timeout"]
    /\ pc' = [pc EXCEPT ![p] = "acq_pop"]
    /\ UNCHANGED <<nonPoolVars, cfg, connections, pushback, shutdown, active_count, total_created,
                   op, guard, sd_pc, dbVars>>

\* acquire, lines 104-115: a permit is taken when one is available.
AcquirePermit(p) ==
    /\ pc[p] = "acq_sem"
    /\ permits > 0
    /\ permits' = permits - 1
    /\ pc' = [pc EXCEPT ![p] = "acq_pop"]
    /\ UNCHANGED <<nonPoolVars, cfg, connections, pushback, shutdown, active_count, total_created,
                   op, guard, result, sd_pc, dbVars>>

\* acquire, lines 104-114: acquire_timeout elapses while waiting for a permit.
AcquireTimeout(p) ==
    /\ pc[p] = "acq_sem"
    /\ pc' = [pc EXCEPT ![p] = "idle"]
    /\ result' = [result EXCEPT ![p] = "Timeout"]
    /\ UNCHANGED <<nonPoolVars, poolState, op, guard, sd_pc, dbVars>>

\* acquire, line 117: lock the deque and pop its front. With a connection
\* popped, lines 126-130 follow without suspending: touch, active_count += 1,
\* and the guard is built. With none, create_connection is awaited.
AcquirePop(p) ==
    /\ pc[p] = "acq_pop"
    /\ IF connections # <<>>
         THEN /\ guard' = [guard EXCEPT ![p] = Head(connections)]
              /\ connections' = Tail(connections)
              /\ active_count' = active_count + 1
              /\ pc' = [pc EXCEPT ![p] = "holding"]
         ELSE /\ pc' = [pc EXCEPT ![p] = "acq_create"]
              /\ UNCHANGED <<guard, connections, active_count>>
    /\ UNCHANGED <<nonPoolVars, cfg, permits, pushback, shutdown, total_created,
                   op, result, sd_pc, dbVars>>

\* acquire, lines 118-130 with create_connection, lines 174-201: the new
\* connection is made, total_created += 1, then touch, active_count += 1 and
\* the guard is built.
AcquireCreate(p) ==
    /\ pc[p] = "acq_create"
    /\ total_created < MaxCreated
    /\ total_created' = total_created + 1
    /\ guard' = [guard EXCEPT ![p] = NewConn]
    /\ active_count' = active_count + 1
    /\ pc' = [pc EXCEPT ![p] = "holding"]
    /\ UNCHANGED <<nonPoolVars, cfg, permits, connections, pushback, shutdown,
                   op, result, sd_pc, dbVars>>

\* A faulty acquire that counts the guard before create_connection has
\* succeeded: the failing call leaves active_count raised.
AcquireCreateFail_Counted(p, kind) ==
    /\ pc[p] = "acq_create"
    /\ permits' = permits + 1
    /\ active_count' = active_count + 1
    /\ pc' = [pc EXCEPT ![p] = "idle"]
    /\ result' = [result EXCEPT ![p] = kind]
    /\ UNCHANGED <<nonPoolVars, cfg, connections, pushback, shutdown, total_created,
                   op, guard, sd_pc, dbVars>>

\* acquire, lines 118-124: create_connection fails (kind Connection, or Timeout
\* after acquire_timeout); the `?` returns and the permit, a local of acquire,
\* is dropped.
AcquireCreateFail(p, kind) ==
    /\ pc[p] = "acq_create"
    /\ permits' = permits + 1
    /\ pc' = [pc EXCEPT ![p] = "idle"]
    /\ result' = [result EXCEPT ![p] = kind]
    /\ UNCHANGED <<nonPoolVars, cfg, connections, pushback, shutdown, active_count, total_created,
                   op, guard, sd_pc, dbVars>>

\* ------------------------------------------------- DatabaseHandle calls
\* query / execute, db.rs lines 28-47 and 76-93, after acquire: prepare_cached
\* and the statement run under the guard and end in Ok or in an error (kind
\* Query stands for Query, Timeout and a panic caught by with_panic_recovery,
\* lines 159-178, which all leave the pool alike); the guard is then dropped.
QueryRun(p, r) ==
    /\ pc[p] = "holding"
    /\ op[p] = "query"
    /\ result' = [result EXCEPT ![p] = r]
    /\ pc' = [pc EXCEPT ![p] = "drop1"]
    /\ UNCHANGED <<nonPoolVars, poolState, op, guard, sd_pc, dbVars>>

\* transaction, db.rs lines 119-134: BEGIN succeeds.
TxBegin(p) ==
    /\ pc[p] = "holding"
    /\ op[p] = "transaction"
    /\ pc' = [pc EXCEPT ![p] = "in_tx"]
    /\ UNCHANGED <<nonPoolVars, poolState, op, guard, result, sd_pc, dbVars>>

\* transaction, db.rs lines 119-124: BEGIN fails, the `?` returns.
TxBeginFail(p) ==
    /\ pc[p] = "holding"
    /\ op[p] = "transaction"
    /\ result' = [result EXCEPT ![p] = "Transaction"]
    /\ pc' = [pc EXCEPT ![p] = "drop1"]
    /\ UNCHANGED <<nonPoolVars, poolState, op, guard, sd_pc, dbVars>>

\* TransactionContext::execute, transaction.rs lines 54-61: the body runs one
\* more statement inside the open transaction.
TxExecute(p) ==
    /\ pc[p] = "in_tx"
    /\ tx_n[p] < MaxStmts
    /\ tx_n' = [tx_n EXCEPT ![p] = @ + 1]
    /\ UNCHANGED <<nonPoolVars, poolState, pc, op, guard, result, sd_pc, db>>

\* transaction, db.rs line 136: the body returns Ok.
TxBodyOk(p) ==
    /\ pc[p] = "in_tx"
    /\ pc' = [pc EXCEPT ![p] = "commit"]
    /\ UNCHANGED <<nonPoolVars, poolState, op, guard, result, sd_pc, dbVars>>

\* Mutant of TxBodyErr: the transaction is committed although the body failed.
TxBodyErr_Commits(p) ==
    /\ pc[p] = "in_tx"
    /\ db' = db \cup Rows(p, tx_n[p])
    /\ result' = [result EXCEPT ![p] = "Query"]
    /\ pc' = [pc EXCEPT ![p] = "drop1"]
    /\ UNCHANGED <<nonPoolVars, poolState, op, guard, sd_pc, tx_n>>

\* transaction, db.rs line 145: the body returns Err(e), of whatever kind (the
\* kind Query stands for it); `tx` is dropped without commit, which rolls the
\* transaction back: none of its rows reaches db.
TxBodyErr(p) ==
    /\ pc[p] = "in_tx"
    /\ result' = [result EXCEPT ![p] = "Query"]
    /\ pc' = [pc EXCEPT ![p] = "drop1"]
    /\ UNCHANGED <<nonPoolVars, poolState, op, guard, sd_pc, dbVars>>

\* Mutant of TxBodyPanic: the panic is caught but the guard is leaked instead
\* of dropped.
TxBodyPanic_LeaksGuard(p) ==
    /\ pc[p] = "in_tx"
    /\ result' = [result EXCEPT ![p] = "Panic"]
    /\ guard' = [guard EXCEPT ![p] = NoConn]
    /\ pc' = [pc EXCEPT ![p] = "idle"]
    /\ UNCHANGED <<nonPoolVars, poolState, op, sd_pc, dbVars>>

\* with_panic_recovery, db.rs lines 163-176: the body panics; unwinding drops
\* `tx` (rollback) and then the guard, and catch_unwind yields a Panic error.
TxBodyPanic(p) ==
    /\ pc[p] = "in_tx"
    /\ result' = [result EXCEPT ![p] = "Panic"]
    /\ pc' = [pc EXCEPT ![p] = "drop1"]
    /\ UNCHANGED <<nonPoolVars, poolState, op, guard, sd_pc, dbVars>>

\* transaction, db.rs lines 138-143: commit succeeds.
TxCommit(p) ==
    /\ pc[p] = "commit"
    /\ db' = db \cup Rows(p, tx_n[p])
    /\ result' = [result EXCEPT ![p] = "Ok"]
    /\ pc' = [pc EXCEPT ![p] = "drop1"]
    /\ UNCHANGED <<nonPoolVars, poolState, op, guard, sd_pc, tx_n>>

\* transaction, db.rs lines 138-141: commit fails, the `?` returns the error.
TxCommitFail(p) ==
    /\ pc[p] = "commit"
    /\ result' = [result EXCEPT ![p] = "Transaction"]
    /\ pc' = [pc EXCEPT ![p] = "drop1"]
    /\ UNCHANGED <<nonPoolVars, poolState, op, guard, sd_pc, dbVars>>

\* ---------------------------------------------------- ConnectionGuard drop
\* Drop for ConnectionGuard (connection.rs:91-97) calls return_connection;
\* pool.rs lines 134-141: the statistics, then active_count -= 1.
GuardDropCount(p) ==
    /\ pc[p] = "drop1"
    /\ active_count' = active_count - 1
    /\ pc' = [pc EXCEPT ![p] = "drop2"]
    /\ UNCHANGED <<nonPoolVars, cfg, permits, connections, pushback, shutdown, total_created,
                   op, guard, result, sd_pc, dbVars>>

\* return_connection, pool.rs lines 143-150: under shutdown the connection is
\* dropped, otherwise a task is spawned to push it back; then the guard's
\* fields are dropped, which releases the permit, and the call returns.
GuardDropReturn(p) ==
    /\ pc[p] = "drop2"
    /\ pushback' = IF shutdown THEN pushback ELSE Append(pushback, guard[p])
    /\ guard' = [guard EXCEPT ![p] = NoConn]
    /\ permits' = permits + 1
    /\ pc' = [pc EXCEPT ![p] = "idle"]
    /\ UNCHANGED <<nonPoolVars, cfg, connections, shutdown, active_count, total_created,
                   op, result, sd_pc, dbVars>>

\* The task spawned by return_connection, pool.rs lines 148-150.
PushBack(i) ==
    /\ i \in DOMAIN pushback
    /\ connections' = Append(connections, pushback[i])
    /\ pushback' = [k \in 1..(Len(pushback) - 1) |->
                        IF k < i THEN pushback[k] ELSE pushback[k + 1]]
    /\ UNCHANGED <<nonPoolVars, cfg, permits, shutdown, active_count, total_created,
                   pc, op, guard, result, sd_pc, dbVars>>

\* ------------------------------------------------------- pool: shutdown
\* shutdown, pool.rs lines 154-155: the flag is set (and waiters notified).
ShutdownStart ==
    /\ sd_pc = "idle"
    /\ shutdown' = TRUE
    /\ sd_pc' = "wait"
    /\ UNCHANGED <<nonPoolVars, cfg, permits, connections, pushback, active_count, total_created,
                   pc, op, guard, result, dbVars>>

\* shutdown, pool.rs lines 157-169: the loop ends when active_count is 0, or
\* when the 30 s deadline has passed.
ShutdownWait(deadline) ==
    /\ sd_pc = "wait"
    /\ active_count = 0 \/ deadline
    /\ sd_pc' = "clear"
    /\ UNCHANGED <<nonPoolVars, poolState, pc, op, guard, result, dbVars>>

\* shutdown, pool.rs line 171: the idle deque is cleared.
ShutdownClear ==
    /\ sd_pc = "clear"
    /\ connections' = <<>>
    /\ sd_pc' = "returned"
    /\ UNCHANGED <<nonPoolVars, cfg, permits, pushback, shutdown, active_count, total_created,
                   pc, op, guard, result, dbVars>>

\* The steps of the pool itself, of acquire and of a guard's drop.
PoolStep ==
    \/ \E p \in Clients : AcquirePermit(p)
    \/ \E p \in Clients : AcquireTimeout(p)
    \/ \E p \in Clients : AcquirePop(p)
    \/ \E p \in Clients : AcquireCreate(p)
    \/ \E p \in Clients, kind \in {"Connection", "Timeout"} : AcquireCreateFail(p, kind)
    \/ \E p \in Clients : GuardDropCount(p)
    \/ \E p \in Clients : GuardDropReturn(p)
    \/ \E i \in 1..MaxCreated : PushBack(i)
    \/ ShutdownStart
    \/ \E deadline \in BOOLEAN : ShutdownWait(deadline)
    \/ ShutdownClear

\* Clients calling DatabaseHandle::query / execute over the pool.
NextPool ==
    \/ PoolStep
    \/ \E p \in Clients : AcquireEnter(p, "query")
    \/ \E p \in Clients, r \in {"Ok", "Query"} : QueryRun(p, r)

SpecPool == InitPool /\ [][NextPool]_vars

\* Clients calling DatabaseHandle::transaction over the pool.
NextTx ==
    \/ PoolStep
    \/ \E p \in TxClients : AcquireEnter(p, "transaction")
    \/ \E p \in Clients : TxBegin(p)
    \/ \E p \in Clients : TxBeginFail(p)
    \/ \E p \in Clients : TxExecute(p)
    \/ \E p \in Clients : TxBodyOk(p)
    \/ \E p \in Clients : TxBodyErr(p)
    \/ \E p \in Clients : TxBodyPanic(p)
    \/ \E p \in Clients : TxCommit(p)
    \/ \E p \in Clients : TxCommitFail(p)

SpecTx == InitPool /\ [][NextTx]_vars

\* =================================================== claims on the pool
\* Clients whose guard holds a connection (from acquire's return until the
\* guard's drop has handed the connection back).
GuardsOut == {p \in Clients : guard[p] # NoConn}

\* Clients that hold a semaphore permit.
PermitHolders ==
    {p \in Clients : pc[p] \in {"acq_pop", "acq_create", "holding", "in_tx",
                                "commit", "drop1", "drop2"}}

\* Clients whose guard was counted in active_count and not yet discounted.
CountedGuards ==
    {p \in Clients : pc[p] \in {"holding", "in_tx", "commit", "drop1"}}

\* Connections the pool owns: idle, inside guards, and in push-back tasks.
LiveConnections == Len(connections) + Cardinality(GuardsOut) + Len(pushback)

\* C1: in every reachable state the number of ConnectionGuards handed out and
\* not yet dropped is at most max_connection.
C1_GuardsAtMostMax == Cardinality(GuardsOut) <= cfg.max_connection

\* C1 witness: max_connection guards are out while another acquire waits.
C1_Witness ==
    /\ Cardinality(GuardsOut) = cfg.max_connection
    /\ \E p \in Clients : pc[p] = "acq_sem"

\* C2 (as claimed): the pool never owns more than max_connection live
\* connections, whatever the configuration and the interleaving.
C2_LiveAtMostMax == LiveConnections <= cfg.max_connection

\* C3: an acquire that starts with the shutdown flag set returns Shutdown at
\* once: no permit taken, no connection created or popped, active_count
\* unchanged.
C3_AcquireAfterShutdown ==
    [][\A p \in Clients :
          (/\ pc[p] = "idle"
           /\ shutdown
           /\ <<pc[p], op[p], result[p]>>' # <<pc[p], op[p], result[p]>>)
          => /\ result'[p] = "Shutdown"
             /\ pc'[p] = "idle"
             /\ guard'[p] = NoConn
             /\ UNCHANGED <<permits, connections, pushback, active_count,
                            total_created>>]_vars

\* C3 witness: an acquire has returned Shutdown from a pool that is shut down.
C3_Witness ==
    /\ shutdown
    /\ \E p \in Clients : pc[p] = "idle" /\ result[p] = "Shutdown"

\* C4: with max_connection = 1, a call leaves the wait for the permit either
\* with the permit, and then no guard is alive and the permit was free, or
\* with a Timeout error, and then without permit or guard; two guards are
\* never alive together, and once no call holds the permit it is free again
\* for the waiting call.
C4_SecondWaitsForFirst ==
    [][cfg.max_connection = 1 =>
         /\ Cardinality(GuardsOut') <= 1
         /\ (PermitHolders' = {} => permits' = 1)
         /\ \A p \in Clients :
              (pc[p] = "acq_sem" /\ pc'[p] # "acq_sem")
              => \/ /\ pc'[p] = "acq_pop"
                    /\ GuardsOut = {}
                    /\ PermitHolders = {}
                    /\ permits = 1 /\ permits' = 0
                 \/ /\ pc'[p] = "idle"
                    /\ result'[p] = "Timeout"
                    /\ guard'[p] = NoConn
                    /\ permits' = permits]_vars

\* C4 witness: max_connection = 1, one call holds its guard and the other has
\* timed out waiting for the permit.
C4_Witness ==
    /\ cfg.max_connection = 1
    /\ \E p, q \in Clients :
         /\ p # q
         /\ pc[p] = "holding"
         /\ pc[q] = "idle" /\ result[q] = "Timeout"

\* C5: when transaction has returned a Panic error, the guard is gone, its
\* permit is back in the semaphore and active_count no longer counts it; on a
\* pool with max_connection = 1 and no other call in flight the permit is
\* free for the next acquire.
C5_PanicReturnsConnection ==
    \A p \in Clients :
        (pc[p] = "idle" /\ result[p] = "Panic")
        => /\ guard[p] = NoConn
           /\ permits = cfg.max_connection - Cardinality(PermitHolders)
           /\ active_count = Cardinality(CountedGuards)
           /\ (PermitHolders = {} => permits = cfg.max_connection /\ active_count = 0)

\* C5 witness: a transaction returned Panic after its body ran a statement,
\* and the pool is back to all permits free and active_count 0.
C5_Witness ==
    \E p \in Clients :
        /\ pc[p] = "idle" /\ op[p] = "transaction" /\ result[p] = "Panic"
        /\ tx_n[p] >= 1
        /\ cfg.max_connection = 1
        /\ permits = 1 /\ active_count = 0

\* C6: when transaction has returned Ok, every row its body wrote is
\* committed; when it has returned an error (the body failed or panicked, the
\* commit failed, or the transaction never began), none of them is.
C6_CommitOnOkRollbackOnErr ==
    \A p \in Clients :
        (pc[p] = "idle" /\ op[p] = "transaction")
        => /\ result[p] = "Ok" => Rows(p, tx_n[p]) \subseteq db
           /\ result[p] # "Ok" => Rows(p, MaxStmts) \cap db = {}

\* C6 witness: a transaction whose body wrote a row returned an error after
\* the body failed or the commit failed.
C6_Witness ==
    \E p \in Clients :
        /\ pc[p] = "idle" /\ op[p] = "transaction"
        /\ tx_n[p] >= 1
        /\ result[p] \in {"Query", "Transaction"}

\* ============================================ PreparedStatementCache
SqlTexts == 1..NumSql

\* PreparedStatementKey::new, cache.rs:22-30: the 64-bit DefaultHasher hash of
\* the text. The texts of the model have pairwise distinct hashes.
PreparedStatementKey(sql) == (sql * 11 + 5) % 64

Keys == DOMAIN entries

\* Instant::now(): later calls return later instants.
Tick == now + 1

\* evict_lru, cache.rs:104-114: what is left after removing one entry of
\* minimal last_used (the first such entry the map's iteration meets), or the
\* map itself when it is empty.
EvictLru(m) ==
    IF DOMAIN m = {}
      THEN {m}
      ELSE {[k \in (DOMAIN m) \ {victim} |-> m[k]] :
              victim \in {k \in DOMAIN m :
                            \A j \in DOMAIN m : m[k].last_used <= m[j].last_used}}

\* insert's map insert, cache.rs:74-83: the entry of `key` is set or replaced.
MapInsert(m, key, e) == [k \in (DOMAIN m) \cup {key} |-> IF k = key THEN e ELSE m[k]]

InitCache ==
    /\ PoolUnused
    /\ \E c \in 0..MaxCap : CacheNew(c)
    /\ ServerNew
    /\ MigUnused
    /\ AppUnused

\* get, cache.rs:55-67.
CacheGet(sql) ==
    /\ now < MaxCacheOps
    /\ LET key == PreparedStatementKey(sql) IN
         IF key \in Keys
           THEN /\ entries' = [entries EXCEPT ![key].last_used = Tick,
                                              ![key].use_count = @ + 1]
                /\ hits' = hits + 1
                /\ misses' = misses
                /\ used_at' = [used_at EXCEPT ![entries[key].sql] = Tick]
           ELSE /\ misses' = misses + 1
                /\ UNCHANGED <<entries, hits, used_at>>
    /\ now' = Tick
    /\ UNCHANGED <<nonCacheVars, capacity, inserts, reinserted, cleared>>

\* insert, cache.rs:69-84.
CacheInsert(sql) ==
    /\ now < MaxCacheOps
    /\ \E m \in (IF Cardinality(Keys) >= capacity THEN EvictLru(entries) ELSE {entries}) :
         entries' = MapInsert(m, PreparedStatementKey(sql),
                              [sql |-> sql, last_used |-> Tick, use_count |-> 1])
    /\ now' = Tick
    /\ used_at' = [used_at EXCEPT ![sql] = Tick]
    /\ inserts' = inserts + 1
    /\ reinserted' = (reinserted \/ used_at[sql] # 0)
    /\ UNCHANGED <<nonCacheVars, capacity, hits, misses, cleared>>

\* clear, cache.rs:86-88.
CacheClear ==
    /\ Keys # {}
    /\ entries' = <<>>
    /\ cleared' = TRUE
    /\ UNCHANGED <<nonCacheVars, capacity, hits, misses, now, used_at, inserts, reinserted>>

NextCache ==
    \/ \E sql \in SqlTexts : CacheGet(sql)
    \/ \E sql \in SqlTexts : CacheInsert(sql)
    \/ CacheClear

SpecCache == InitCache /\ [][NextCache]_vars

\* ------------------------------------------------- claims on the cache
\* The texts inserted so far.
Inserted == {q \in SqlTexts : used_at[q] # 0}

\* The c most recently used of the inserted texts (all of them if fewer).
MostRecentlyUsed(c) ==
    {q \in Inserted : Cardinality({r \in Inserted : used_at[r] > used_at[q]}) < c}

\* C7 (as claimed): after any sequence of get, insert and clear on a cache of
\* capacity C, for every C >= 0, the number of entries is at most C.
C7_SizeAtMostCapacity == Cardinality(Keys) <= capacity

\* C7, the part the code keeps: with a capacity of at least 1 the number of
\* entries is at most the capacity.
C7_SizeAtMostPositiveCapacity == capacity >= 1 => Cardinality(Keys) <= capacity

\* C8 (as claimed): after N inserts of distinct texts into a cache of capacity
\* C < N, interleaved with gets, the cache holds exactly C entries and they
\* are the C most recently used texts.
C8_KeepsMostRecentlyUsed ==
    (~reinserted /\ ~cleared /\ inserts > capacity)
    => /\ Cardinality(Keys) = capacity
       /\ {entries[k].sql : k \in Keys} = MostRecentlyUsed(capacity)

\* C8, the part the code keeps: the same with a capacity of at least 1.
C8_KeepsMostRecentlyUsedPositive ==
    capacity >= 1 => C8_KeepsMostRecentlyUsed

\* ===================================== the server and its registry
\* The receiver of connection c's outbound channel exists: it is created in
\* handle_connection (server.rs:191) and moved into the write task
\* (server.rs:194), which drops it when write_loop returns.
RxAlive(c) == wtask[c] = "running"

\* The registry's RwLock (connection.rs:24): register and unregister take the
\* write lock for one step, which they get when no call holds a read lock; the
\* order in which waiting tasks are served is left open.
WriteGrantable == rw_readers = {}

\* A registry call that has returned hands its result to the handler before
\* anything else happens (CallReturn below): from then on what the call did
\* is no state of the program any more.
NoneReturning == \A d \in ConnIds : call[d].status \notin {"Ok", "Err"}

\* Server::run, server.rs:166-179, and handle_connection, server.rs:189-197:
\* a connection is accepted and gets the next ConnectionId and its channel;
\* it is registered (ConnectionRegistry::register, connection.rs:35-49), its
\* write task is spawned and its read loop starts.
Accept(c) ==
    /\ NoneReturning
    /\ c = next_id + 1
    /\ c \in ConnIds
    /\ WriteGrantable
    /\ next_id' = c
    /\ registry' = registry \cup {c}
    /\ wtask' = [wtask EXCEPT ![c] = "running"]
    /\ life' = [life EXCEPT ![c] = "reading"]
    /\ UNCHANGED <<nonRegVars, rw_readers, queue, call>>

\* read_loop, server.rs:214-220: a frame is read and decoded, the handler is
\* called with a fresh Context.
ReadFrame(c) ==
    /\ NoneReturning
    /\ life[c] = "reading"
    /\ life' = [life EXCEPT ![c] = "handling"]
    /\ UNCHANGED <<nonRegVars, next_id, registry, rw_readers, queue, wtask, call>>

\* An unregister that leaves the entry, and its sender, in the map.
Unregister_KeepsEntry(c) ==
    /\ WriteGrantable
    /\ registry' = registry
    /\ life' = [life EXCEPT ![c] = "closed"]

\* handle_connection, server.rs:199-200, once read_loop has returned:
\* ConnectionRegistry::unregister (connection.rs:51-53) removes the entry and
\* with it the registry's sender; handle_connection returns and drops its own.
Unregister(c) ==
    /\ WriteGrantable
    /\ registry' = registry \ {c}
    /\ life' = [life EXCEPT ![c] = "closed"]

\* read_loop, server.rs:214-219: the loop ends (n == 0, or the `?` of read or
\* of decode).
ReadLoopEnd(c) ==
    /\ NoneReturning
    /\ life[c] = "reading"
    /\ Unregister(c)
    /\ UNCHANGED <<nonRegVars, next_id, rw_readers, queue, wtask, call>>

\* A broadcast_except that forgets to skip sender_id.
BroadcastTargets_SkipsNobody(kind, arg, reg) ==
    CASE kind = "send_to" -> reg \cap arg
      [] kind = "all"     -> reg
      [] kind = "except"  -> reg
      [] kind = "filter"  -> reg \cap arg

\* The connections a registry call sends to, given the registered ones:
\* send_to (connection.rs:59-66), broadcast_all (68-75), broadcast_except
\* (77-88) and broadcast_filter (90-102, arg is the set the filter accepts).
BroadcastTargets(kind, arg, reg) ==
    CASE kind = "send_to" -> reg \cap arg
      [] kind = "all"     -> reg
      [] kind = "except"  -> reg \ arg
      [] kind = "filter"  -> reg \cap arg

\* The filters handlers pass to broadcast_filter, each as the set of ids it
\* accepts: the odd ids.
Filters == {{x \in ConnIds : x % 2 = 1}}

\* The calls a handler can make through its Context (context.rs:47-78).
CallKinds ==
    {<<"all", {}>>}
    \cup {<<"except", {x}>> : x \in ConnIds}
    \cup {<<"send_to", {x}>> : x \in ConnIds}
    \cup {<<"filter", f>> : f \in Filters}

\* The handler of connection c calls the registry: the call takes the read
\* lock (`self.connections.read().await`) and starts iterating over the map.
CallStart(c, k) ==
    /\ NoneReturning
    /\ life[c] = "handling"
    /\ call[c].status = "none"
    /\ Cardinality({d \in ConnIds : call[d].status # "none"}) < NumCallers
    /\ rw_readers' = rw_readers \cup {c}
    /\ call' = [call EXCEPT ![c] = [NoCall EXCEPT
                   !.status = "sending", !.kind = k[1], !.arg = k[2],
                   !.reg = registry,
                   !.todo = BroadcastTargets(k[1], k[2], registry)]]
    /\ UNCHANGED <<nonRegVars, next_id, life, registry, queue, wtask>>

\* One `handle.sender.send(bytes).await?` of the iteration, in whatever order
\* the map yields its entries: the frame is buffered when the channel has
\* room, the call waits while it is full, and when the receiver is gone the
\* `?` returns the error: the call ends and its read lock is released.
CallSend(c, t) ==
    /\ NoneReturning
    /\ call[c].status = "sending"
    /\ t \in call[c].todo
    /\ IF RxAlive(t)
         THEN /\ Len(queue[t]) < ChanCap
              /\ queue' = [queue EXCEPT ![t] = Append(@, "frame")]
              /\ call' = [call EXCEPT ![c].todo = @ \ {t}, ![c].sent[t] = @ + 1]
              /\ UNCHANGED rw_readers
         ELSE /\ call' = [call EXCEPT ![c].status = "Err"]
              /\ rw_readers' = rw_readers \ {c}
              /\ UNCHANGED queue
    /\ UNCHANGED <<nonRegVars, next_id, life, registry, wtask>>

\* The iteration is over: the call returns Ok(()) and releases its read lock.
CallDone(c) ==
    /\ NoneReturning
    /\ call[c].status = "sending"
    /\ call[c].todo = {}
    /\ call' = [call EXCEPT ![c].status = "Ok"]
    /\ rw_readers' = rw_readers \ {c}
    /\ UNCHANGED <<nonRegVars, next_id, life, registry, queue, wtask>>

\* The call returns to the handler, Ok(()) or the error of the failed send.
CallReturn(c) ==
    /\ call[c].status \in {"Ok", "Err"}
    /\ call' = [call EXCEPT ![c] = NoCall]
    /\ UNCHANGED <<nonRegVars, next_id, life, registry, rw_readers, queue, wtask>>

\* read_loop, server.rs:222-224: the handler returns. Ok(None): the loop goes
\* on. Ok(Some(response)): Context::send_packet (context.rs:35-40) sends the
\* response on the connection's own channel, waiting while it is full; when the
\* receiver is gone the `?` ends the read loop. Err: the `?` ends the loop.
HandlerReturn(c, how) ==
    /\ NoneReturning
    /\ life[c] = "handling"
    /\ call[c].status = "none"
    /\ CASE how = "none" ->
              /\ life' = [life EXCEPT ![c] = "reading"]
              /\ UNCHANGED <<registry, queue>>
         [] how = "response" /\ RxAlive(c) ->
              /\ Len(queue[c]) < ChanCap
              /\ queue' = [queue EXCEPT ![c] = Append(@, "frame")]
              /\ life' = [life EXCEPT ![c] = "reading"]
              /\ UNCHANGED registry
         [] OTHER ->
              /\ Unregister(c)
              /\ UNCHANGED queue
    /\ UNCHANGED <<nonRegVars, next_id, rw_readers, wtask, call>>

\* write_loop, server.rs:231-233: a frame is received and written.
WriteFrame(c) ==
    /\ NoneReturning
    /\ wtask[c] = "running"
    /\ queue[c] # <<>>
    /\ queue' = [queue EXCEPT ![c] = Tail(@)]
    /\ UNCHANGED <<nonRegVars, next_id, life, registry, rw_readers, wtask, call>>

\* write_loop, server.rs:232: write_all fails, the `?` returns; the receiver
\* is dropped with what was still buffered.
WriteFail(c) ==
    /\ NoneReturning
    /\ wtask[c] = "running"
    /\ queue[c] # <<>>
    /\ wtask' = [wtask EXCEPT ![c] = "failed"]
    /\ queue' = [queue EXCEPT ![c] = <<>>]
    /\ UNCHANGED <<nonRegVars, next_id, life, registry, rw_readers, call>>

\* write_loop, server.rs:231 and 235: every sender is dropped and the buffer
\* is empty, recv returns None and the task ends.
WriteExit(c) ==
    /\ NoneReturning
    /\ wtask[c] = "running"
    /\ queue[c] = <<>>
    /\ life[c] = "closed"
    /\ wtask' = [wtask EXCEPT ![c] = "finished"]
    /\ UNCHANGED <<nonRegVars, next_id, life, registry, rw_readers, queue, call>>

InitReg == PoolUnused /\ CacheUnused /\ ServerNew /\ MigUnused /\ AppUnused

NextReg ==
    \/ \E c \in ConnIds : Accept(c)
    \/ \E c \in ConnIds : ReadFrame(c)
    \/ \E c \in ConnIds : ReadLoopEnd(c)
    \/ \E c \in ConnIds, k \in CallKinds : CallStart(c, k)
    \/ \E c, t \in ConnIds : CallSend(c, t)
    \/ \E c \in ConnIds : CallDone(c)
    \/ \E c \in ConnIds : CallReturn(c)
    \/ \E c \in ConnIds, how \in {"none", "response", "error"} : HandlerReturn(c, how)
    \/ \E c \in ConnIds : WriteFrame(c)
    \/ \E c \in ConnIds : WriteFail(c)
    \/ \E c \in ConnIds : WriteExit(c)

SpecReg == InitReg /\ [][NextReg]_vars

\* ------------------------------------------------ claims on the registry
\* The registry calls that have just returned.
Returned == {c \in ConnIds : call[c].status \in {"Ok", "Err"}}

Broadcasts == {"all", "except", "filter"}

\* C9: broadcast_except(id, bytes), called while the set R of connections is
\* registered and the receivers of all their channels are open, returns Ok
\* having enqueued the bytes exactly once on the channel of every connection
\* of R other than id, and nothing on the channel of id or of a connection
\* outside R.
C9_BroadcastExceptExactlyOnce ==
    \A c \in Returned :
        (call[c].kind = "except" /\ \A t \in call[c].reg : RxAlive(t))
        => /\ call[c].status = "Ok"
           /\ \A t \in ConnIds :
                call[c].sent[t] = IF t \in call[c].reg \ call[c].arg THEN 1 ELSE 0

\* A broadcast_except has returned while every known connection was
\* registered with an open channel, the excepted one among them.
C9_Witness ==
    \E c \in Returned :
        /\ call[c].kind = "except"
        /\ call[c].reg = ConnIds
        /\ \A t \in ConnIds : RxAlive(t)
        /\ \E t \in ConnIds : call[c].sent[t] = 1
        /\ \E t \in call[c].arg : call[c].sent[t] = 0

\* C10: broadcast is best-effort: when a broadcast_all, broadcast_except or
\* broadcast_filter returns, every connection it targeted whose receiver is
\* open has got the bytes, also when the send to another one failed.
C10_BroadcastBestEffort ==
    \A c \in Returned :
        call[c].kind \in Broadcasts
        => \A t \in BroadcastTargets(call[c].kind, call[c].arg, call[c].reg) :
                RxAlive(t) => call[c].sent[t] = 1

\* ============================== the connection tasks in detail (SpecConn)
\* The connections that arrive.
Peers == 1..NumPeers

\* What the steps below leave alone of the registry's calls.
callVars == <<rw_readers, call>>

\* Server::run, server.rs:166: accept returns a connection, which is served as
\* in Accept while run is still in its loop.
ConnAccept(c) ==
    /\ run_pc = "accepting"
    /\ c \in Peers
    /\ Accept(c)

\* Server::run, server.rs:166: accept returns an error and the `?` returns it
\* from run. The connection tasks spawned before go on.
AcceptErr ==
    /\ run_pc = "accepting"
    /\ run_pc' = "returned"
    /\ UNCHANGED <<appVars, migVars, poolVars, cacheVars, regVars, ret, w_bytes, enq, sock>>

\* read_loop, server.rs:214-219, returns: n == 0 ("eof", Ok), the `?` of read
\* ("read") or the `?` of Packet::decode ("decode").
ReadEnd(c, why) ==
    /\ life[c] = "reading"
    /\ life' = [life EXCEPT ![c] = "unregistering"]
    /\ ret' = [ret EXCEPT ![c] = why]
    /\ UNCHANGED <<appVars, migVars, poolVars, cacheVars, callVars, next_id, registry, queue, wtask,
                   run_pc, w_bytes, enq, sock>>

\* The number of frames enqueued so far on the channels of the connections 1..n.
RECURSIVE EnqueuedUpTo(_)
EnqueuedUpTo(n) == IF n = 0 THEN 0 ELSE Len(enq[n]) + EnqueuedUpTo(n - 1)

\* `sender.send(bytes).await` by task d on the channel of t with room in it:
\* the frame, the n-th enqueued there, is buffered.
Enqueue(d, t) ==
    LET f == <<d, Len(enq[t]) + 1>> IN
      /\ Len(queue[t]) < ChanCap
      /\ EnqueuedUpTo(NumPeers) < MaxFrames
      /\ queue' = [queue EXCEPT ![t] = Append(@, f)]
      /\ enq' = [enq EXCEPT ![t] = Append(@, f)]

\* The handler sends to a registered connection while it runs:
\* Context::send_to, context.rs:47-52, through ConnectionRegistry::send_to
\* (to itself also Context::send_bytes, context.rs:42-45).
HandlerSend(c, t) ==
    /\ life[c] = "handling"
    /\ t \in registry
    /\ RxAlive(t)
    /\ Enqueue(c, t)
    /\ UNCHANGED <<appVars, migVars, poolVars, cacheVars, callVars, next_id, life, registry, wtask,
                   run_pc, ret, w_bytes, sock>>

\* read_loop, server.rs:222-224: the handler returns Ok(None), and the loop
\* goes on, or Ok(Some(response)): send_packet (context.rs:35-40) enqueues the
\* response and the loop goes on, or its `?` returns the error of a send to a
\* closed channel ("send").
HandlerOk(c, response) ==
    /\ life[c] = "handling"
    /\ IF ~response
         THEN /\ life' = [life EXCEPT ![c] = "reading"]
              /\ UNCHANGED <<queue, enq, ret>>
         ELSE IF RxAlive(c)
           THEN /\ Enqueue(c, c)
                /\ life' = [life EXCEPT ![c] = "reading"]
                /\ UNCHANGED ret
           ELSE /\ life' = [life EXCEPT ![c] = "unregistering"]
                /\ ret' = [ret EXCEPT ![c] = "send"]
                /\ UNCHANGED <<queue, enq>>
    /\ UNCHANGED <<appVars, migVars, poolVars, cacheVars, callVars, next_id, registry, wtask,
                   run_pc, w_bytes, sock>>

\* read_loop, server.rs:222: the handler returns Err and the `?` returns it
\* from read_loop ("handler").
HandlerErr(c) ==
    /\ life[c] = "handling"
    /\ life' = [life EXCEPT ![c] = "unregistering"]
    /\ ret' = [ret EXCEPT ![c] = "handler"]
    /\ UNCHANGED <<appVars, migVars, poolVars, cacheVars, callVars, next_id, registry, queue, wtask,
                   run_pc, w_bytes, enq, sock>>

\* handle_connection, server.rs:199-200: after read_loop, whatever it
\* returned, the connection is unregistered and handle_connection returns.
ConnUnregister(c) ==
    /\ life[c] = "unregistering"
    /\ Unregister(c)
    /\ UNCHANGED <<appVars, migVars, poolVars, cacheVars, callVars, next_id, queue, wtask, connVars>>

\* write_loop, server.rs:231: recv returns the oldest buffered frame.
WriteRecv(c) ==
    /\ wtask[c] = "running"
    /\ w_bytes[c] = NoFrame
    /\ queue[c] # <<>>
    /\ w_bytes' = [w_bytes EXCEPT ![c] = Head(queue[c])]
    /\ queue' = [queue EXCEPT ![c] = Tail(@)]
    /\ UNCHANGED <<appVars, migVars, poolVars, cacheVars, callVars, next_id, life, registry, wtask,
                   run_pc, ret, enq, sock>>

\* A write_all that puts the frame on the socket twice.
WriteAll_Twice(c) ==
    /\ wtask[c] = "running"
    /\ w_bytes[c] # NoFrame
    /\ sock' = [sock EXCEPT ![c] = Append(Append(@, w_bytes[c]), w_bytes[c])]
    /\ w_bytes' = [w_bytes EXCEPT ![c] = NoFrame]
    /\ UNCHANGED <<appVars, migVars, poolVars, cacheVars, callVars, next_id, life, registry, queue, wtask,
                   run_pc, ret, enq>>

\* write_loop, server.rs:232: write_all writes the whole frame.
WriteAll(c) ==
    /\ wtask[c] = "running"
    /\ w_bytes[c] # NoFrame
    /\ sock' = [sock EXCEPT ![c] = Append(@, w_bytes[c])]
    /\ w_bytes' = [w_bytes EXCEPT ![c] = NoFrame]
    /\ UNCHANGED <<appVars, migVars, poolVars, cacheVars, callVars, next_id, life, registry, queue, wtask,
                   run_pc, ret, enq>>

\* write_loop, server.rs:232: write_all fails and the `?` returns: the frame
\* is not written, the receiver is dropped with what was still buffered.
WriteAllFail(c) ==
    /\ wtask[c] = "running"
    /\ w_bytes[c] # NoFrame
    /\ wtask' = [wtask EXCEPT ![c] = "failed"]
    /\ w_bytes' = [w_bytes EXCEPT ![c] = NoFrame]
    /\ queue' = [queue EXCEPT ![c] = <<>>]
    /\ UNCHANGED <<appVars, migVars, poolVars, cacheVars, callVars, next_id, life, registry,
                   run_pc, ret, enq, sock>>

\* write_loop, server.rs:231 and 235: the buffer is empty and every sender is
\* dropped (the registry's at unregister, the tasks' when handle_connection
\* returns): recv returns None and the task ends.
WriteRecvNone(c) ==
    /\ wtask[c] = "running"
    /\ w_bytes[c] = NoFrame
    /\ queue[c] = <<>>
    /\ life[c] = "closed"
    /\ c \notin registry
    /\ wtask' = [wtask EXCEPT ![c] = "finished"]
    /\ UNCHANGED <<appVars, migVars, poolVars, cacheVars, callVars, next_id, life, registry, queue,
                   connVars>>

InitConn == PoolUnused /\ CacheUnused /\ ServerNew /\ MigUnused /\ AppUnused

ReadEnds == {"eof", "read", "decode"}

NextConn ==
    \/ \E c \in Peers : ConnAccept(c)
    \/ AcceptErr
    \/ \E c \in Peers : ReadFrame(c)
    \/ \E c \in Peers, why \in ReadEnds : ReadEnd(c, why)
    \/ \E c, t \in Peers : HandlerSend(c, t)
    \/ \E c \in Peers, response \in BOOLEAN : HandlerOk(c, response)
    \/ \E c \in Peers : HandlerErr(c)
    \/ \E c \in Peers : ConnUnregister(c)
    \/ \E c \in Peers : WriteRecv(c)
    \/ \E c \in Peers : WriteAll(c)
    \/ \E c \in Peers : WriteAllFail(c)
    \/ \E c \in Peers : WriteRecvNone(c)

SpecConn == InitConn /\ [][NextConn]_vars

\* ------------------------------------- claims on the connection tasks
IsPrefix(a, b) == Len(a) <= Len(b) /\ \A i \in 1..Len(a) : a[i] = b[i]

C12_RegisteredHasLiveReceiver == \A c \in registry : RxAlive(c)

\* The tasks make progress: a write task waiting in recv gets what there is
\* to get, a write_all ends (written or failed), an unregister gets the lock.
FairConn ==
    \A c \in Peers :
        /\ WF_vars(WriteRecv(c))
        /\ WF_vars(WriteAll(c) \/ WriteAllFail(c))
        /\ WF_vars(WriteRecvNone(c))
        /\ WF_vars(ConnUnregister(c))

SpecConnFair == SpecConn /\ FairConn

\* The write task of c has ended having written every frame enqueued.
WroteAll(c) == wtask[c] = "finished" /\ sock[c] = enq[c]

C14_NonTransportErrorKeepsLoop == \A c \in ConnIds : ret[c] \notin {"decode", "handler"}

\* C15: when listener.accept() returns an error, Server::run keeps accepting
\* and does not return.
C15_AcceptErrorKeepsAccepting == run_pc = "accepting"

\* ================================================ the migration engine
MaxOf(S) == CHOOSE x \in S : \A y \in S : y <= x
MinOf(S) == CHOOSE x \in S : \A y \in S : x <= y

\* The versions that have a row in _migrations.
Recorded == {v \in Versions : records[v] >= 1}

\* current_version, migration.rs:261-266: SELECT MAX(version), an Option (here
\* the empty set or a singleton).
CurrentVersion == IF Recorded = {} THEN {} ELSE {MaxOf(Recorded)}

\* Option::unwrap_or(0).
UnwrapOr0(o) == IF o = {} THEN 0 ELSE MaxOf(o)

\* The iteration order of the BTreeMap (MigrationRegistry::all,
\* migration.rs:119-121): versions ascending.
RECURSIVE Ascending(_)
Ascending(S) == IF S = {} THEN <<>> ELSE <<MinOf(S)>> \o Ascending(S \ {MinOf(S)})

\* A migrate_down that forgets the rev(): the migrations to revert stay in
\* the order of the registry.
Reverse_Forgotten(q) == q

\* Iterator::rev, migration.rs:312-315.
Reverse(q) == [i \in 1..Len(q) |-> q[Len(q) + 1 - i]]

\* i64::MAX, the target of migrate_pending (migration.rs:278): above every
\* version a migration has.
I64Max == NumVersions + 1

\* The targets migrate_to is called with; I64Max is migrate_pending.
Targets == Versions \cup {I64Max}

\* A migrate_to that has returned hands its result to its caller before
\* anything else happens (MigReturn below).
NoneReturned == \A m \in Migrators : m_pc[m] # "returned"

\* migrate_to returns the error e.context(..): nothing the open transaction
\* did is kept (DatabaseHandle::transaction, db.rs:145, drops the transaction,
\* which rolls it back).
MigFail(m) ==
    /\ m_pc' = [m_pc EXCEPT ![m] = "returned"]
    /\ m_result' = [m_result EXCEPT ![m] = "Err"]
    /\ m_log' = [m_log EXCEPT ![m] = Append(@, <<report[m].target_version, "Err">>)]
    /\ m_row' = [m_row EXCEPT ![m] = FALSE]
    /\ m_eff' = [m_eff EXCEPT ![m] = FALSE]
    /\ UNCHANGED <<migrations, records, schema, m_todo, m_up, report>>

\* The calls of migrate_to made so far by the migrators 1..n, the running
\* ones included.
RECURSIVE StartedCalls(_)
StartedCalls(n) ==
    IF n = 0 THEN 0
    ELSE StartedCalls(n - 1) + Len(m_log[n])
         + (IF m_pc[n] \in {"idle", "returned"} THEN 0 ELSE 1)

\* migrate_to, migration.rs:281-287, with the start of migrate_up
\* (289-295) or migrate_down (306-315): the current version is read and the
\* migrations to apply, ascending, or to revert, descending, are collected.
MigrateTo(m, target) ==
    /\ NoneReturned
    /\ m_pc[m] = "idle"
    /\ StartedCalls(NumMigrators) < MaxCalls
    /\ LET current == UnwrapOr0(CurrentVersion)
           up == target >= current
           regd == DOMAIN migrations
       IN /\ m_up' = [m_up EXCEPT ![m] = up]
          /\ m_todo' = [m_todo EXCEPT ![m] =
                 IF up THEN Ascending({v \in regd : v > current /\ v <= target})
                       ELSE Reverse(Ascending({v \in regd : v <= current /\ v > target}))]
          /\ report' = [report EXCEPT ![m] = NewReport(current, target)]
    /\ m_pc' = [m_pc EXCEPT ![m] = "loop"]
    /\ m_result' = [m_result EXCEPT ![m] = "none"]
    /\ UNCHANGED <<nonMigVars, migrations, records, schema, m_row, m_eff, m_log>>

\* The stages of db.transaction in apply_migration / revert_migration after
\* the script's statements: the statement on _migrations, the commit.
TxStages == {"record", "commit"}

\* revert_migration, migration.rs:362-367: a migration to revert that has no
\* down script is an error.
HasScript(m) == m_up[m] \/ migrations[Head(m_todo[m])].down

\* Whether the statements of the up (down) script of version v change
\* anything: they are executed on what is committed at that time, and a script
\* that succeeds where its effects are there already (are not there) has
\* statements like CREATE TABLE IF NOT EXISTS (DROP TABLE IF EXISTS).
ScriptChanges(up, v) == IF up THEN v \notin schema ELSE v \in schema

\* A script whose statements take effect as they are executed, outside the
\* transaction.
MigScript_Autocommit(m, ok) ==
    /\ NoneReturned
    /\ m_pc[m] = "loop"
    /\ m_todo[m] # <<>>
    /\ IF HasScript(m) /\ ok
         THEN /\ m_pc' = [m_pc EXCEPT ![m] = "record"]
              /\ schema' = IF m_up[m] THEN schema \cup {Head(m_todo[m])}
                                      ELSE schema \ {Head(m_todo[m])}
              /\ m_eff' = [m_eff EXCEPT ![m] = ScriptChanges(m_up[m], Head(m_todo[m]))]
              /\ UNCHANGED <<migrations, records, m_todo, m_up, m_row, report,
                             m_result, m_log>>
         ELSE MigFail(m)
    /\ UNCHANGED nonMigVars

\* apply_migration, migration.rs:326-345, revert_migration, 361-386: the next
\* migration of the loop is started and the statements of its up or down
\* script are executed inside db.transaction; the `?` returns the first error.
MigScript(m, ok) ==
    /\ NoneReturned
    /\ m_pc[m] = "loop"
    /\ m_todo[m] # <<>>
    /\ IF HasScript(m) /\ ok
         THEN /\ m_pc' = [m_pc EXCEPT ![m] = "record"]
              /\ m_eff' = [m_eff EXCEPT ![m] = ScriptChanges(m_up[m], Head(m_todo[m]))]
              /\ UNCHANGED <<migrations, records, schema, m_todo, m_up, m_row, report,
                             m_result, m_log>>
         ELSE MigFail(m)
    /\ UNCHANGED nonMigVars

\* The migrators whose open transaction has inserted the row of version v,
\* or deleted it, and not committed yet.
PendingInserts(v) ==
    {h \in Migrators : m_pc[h] = "commit" /\ Head(m_todo[h]) = v /\ m_up[h]}
PendingDeletes(v) ==
    {h \in Migrators : m_pc[h] = "commit" /\ Head(m_todo[h]) = v /\ ~m_up[h] /\ m_row[h]}

\* The transactions the statement of migrator m on the row of version v waits
\* for (READ COMMITTED, the isolation level of a transaction opened without
\* one, db.rs:119-123): an INSERT for an uncommitted insert or delete of the
\* same key, a DELETE for an uncommitted delete of the row; a DELETE does not
\* see a row that is not committed.
WaitsFor(m, v) ==
    IF m_up[m] THEN (PendingInserts(v) \cup PendingDeletes(v)) \ {m}
               ELSE PendingDeletes(v) \ {m}

\* apply_migration, migration.rs:347-351: INSERT INTO _migrations, an error
\* when the version is there already (version is the PRIMARY KEY,
\* migration.rs:220); revert_migration, 388-389: DELETE FROM _migrations WHERE
\* version = $1, of one row or of none.
MigRecord(m) ==
    /\ NoneReturned
    /\ m_pc[m] = "record"
    /\ LET v == Head(m_todo[m]) IN
         /\ WaitsFor(m, v) = {}
         /\ IF m_up[m] /\ records[v] >= 1
              THEN MigFail(m)
              ELSE /\ m_pc' = [m_pc EXCEPT ![m] = "commit"]
                   /\ m_row' = [m_row EXCEPT ![m] = ~m_up[m] /\ records[v] >= 1]
                   /\ UNCHANGED <<migrations, records, schema, m_todo, m_up, m_eff,
                                  report, m_result, m_log>>
    /\ UNCHANGED nonMigVars

\* A revert whose DELETE leaves the row.
CommitRecords_NoDelete(up, v, row) ==
    IF up THEN [records EXCEPT ![v] = @ + 1] ELSE records

\* The _migrations table after the commit of the apply (up) or revert of v.
CommitRecords(up, v, row) ==
    IF up THEN [records EXCEPT ![v] = @ + 1]
          ELSE IF row THEN [records EXCEPT ![v] = 0] ELSE records

\* DatabaseHandle::transaction, db.rs:136-146: the body returned Ok and the
\* transaction is committed: what the script and the statement on _migrations
\* did takes effect together, and migrate_up (migration.rs:299) or
\* migrate_down (319) pushes the version on the report; or the commit fails.
MigCommit(m, ok) ==
    /\ NoneReturned
    /\ m_pc[m] = "commit"
    /\ IF ok
         THEN LET v == Head(m_todo[m]) IN
              /\ records' = CommitRecords(m_up[m], v, m_row[m])
              /\ schema' = IF ~m_eff[m] THEN schema
                           ELSE IF m_up[m] THEN schema \cup {v} ELSE schema \ {v}
              /\ report' = [report EXCEPT ![m] =
                     IF m_up[m] THEN [@ EXCEPT !.applied = Append(@, v)]
                                ELSE [@ EXCEPT !.reverted = Append(@, v)]]
              /\ m_todo' = [m_todo EXCEPT ![m] = Tail(@)]
              /\ m_pc' = [m_pc EXCEPT ![m] = "loop"]
              /\ m_row' = [m_row EXCEPT ![m] = FALSE]
              /\ m_eff' = [m_eff EXCEPT ![m] = FALSE]
              /\ UNCHANGED <<migrations, m_up, m_result, m_log>>
         ELSE MigFail(m)
    /\ UNCHANGED nonMigVars

\* migrate_up, migration.rs:302-303, migrate_down, 322-323: the loop is over,
\* the current version is read again and the report is returned.
MigFinish(m) ==
    /\ NoneReturned
    /\ m_pc[m] = "loop"
    /\ m_todo[m] = <<>>
    /\ report' = [report EXCEPT ![m].final_version = UnwrapOr0(CurrentVersion)]
    /\ m_pc' = [m_pc EXCEPT ![m] = "returned"]
    /\ m_result' = [m_result EXCEPT ![m] = "Ok"]
    /\ m_log' = [m_log EXCEPT ![m] = Append(@, <<report[m].target_version, "Ok">>)]
    /\ UNCHANGED <<nonMigVars, migrations, records, schema, m_todo, m_up, m_row, m_eff>>

\* The caller has the Result of migrate_to; the locals of the call are gone.
MigReturn(m) ==
    /\ m_pc[m] = "returned"
    /\ m_pc' = [m_pc EXCEPT ![m] = "idle"]
    /\ m_todo' = [m_todo EXCEPT ![m] = <<>>]
    /\ m_up' = [m_up EXCEPT ![m] = TRUE]
    /\ report' = [report EXCEPT ![m] = NewReport(0, 0)]
    /\ m_result' = [m_result EXCEPT ![m] = "none"]
    /\ UNCHANGED <<nonMigVars, migrations, records, schema, m_row, m_eff, m_log>>

\* The registries: any set of versions, each migration with or without a
\* down script (Migration::new, Migration::with_down, migration.rs:14-27).
Registries ==
    UNION {[S -> [down : BOOLEAN]] : S \in SUBSET Versions}

MigStep(m) ==
    \/ \E target \in Targets : MigrateTo(m, target)
    \/ \E ok \in BOOLEAN : MigScript(m, ok)
    \/ MigRecord(m)
    \/ \E ok \in BOOLEAN : MigCommit(m, ok)
    \/ MigFinish(m)
    \/ MigReturn(m)

\* One migrator at a time.
InitMig ==
    /\ PoolUnused /\ CacheUnused /\ ServerNew /\ AppUnused
    /\ \E reg \in Registries : MigratorNew(reg)

NextMig == MigStep(1)

SpecMig == InitMig /\ [][NextMig]_vars

\* Several migrators on the same database, each over the same registry.
NextMigAll == \E m \in Migrators : MigStep(m)

SpecMigAll == InitMig /\ [][NextMigAll]_vars

(***************************************************************************)
(* Claims about the migration engine.                                      *)
(***************************************************************************)

\* migrate_to has returned Ok to migrator m for a target of the registry.
ReturnedOkInRegistry(m) ==
    /\ m_pc[m] = "returned"
    /\ m_result[m] = "Ok"
    /\ report[m].target_version \in DOMAIN migrations

\* C16: for every registry, every recorded state reached through the
\* migrator and every target version of the registry, when migrate_to(target)
\* returns Ok, current_version(), the maximum recorded version, is target,
\* migrating up and migrating down.
C16_MigrateToReachesTarget ==
    \A m \in Migrators :
        ReturnedOkInRegistry(m) => CurrentVersion = {report[m].target_version}

\* The same for the targets above 0, the value migrate_to takes for the
\* current version of an empty table.
C16_ReachesPositiveTarget ==
    \A m \in Migrators :
        (ReturnedOkInRegistry(m) /\ report[m].target_version > 0)
            => CurrentVersion = {report[m].target_version}

\* Every migration of the registry has a down script next to its up script.
AllHaveDown == \A v \in DOMAIN migrations : migrations[v].down

\* Migrator m, on the table that was empty at the start, has called
\* migrate_to(max version) and then migrate_to(0), both returned Ok, and the
\* second call has just returned.
UpThenDown(m) ==
    /\ DOMAIN migrations # {}
    /\ AllHaveDown
    /\ m_pc[m] = "returned"
    /\ m_log[m] = << <<MaxOf(DOMAIN migrations), "Ok">>, <<0, "Ok">> >>

\* C17: starting from an empty _migrations table with a registry whose
\* migrations all have up and down scripts, migrate_to(max version) followed
\* by migrate_to(0) leaves _migrations empty (and the schema as it was); in
\* particular applying then reverting one migration removes its record.
C17_UpThenDownLeavesEmpty ==
    \A m \in Migrators :
        UpThenDown(m) => (\A v \in Versions : records[v] = 0) /\ schema = {}

\* Migrations were applied by the first call and reverted by the second.
C17_Witness ==
    \E m \in Migrators :
        /\ UpThenDown(m)
        /\ report[m].initial_version = MaxOf(DOMAIN migrations)
        /\ report[m].reverted # <<>>

\* A step of migrator m's transaction other than its successful commit.
InTxNotCommitted(m) ==
    /\ m_pc[m] \in TxStages \/ (m_pc[m] = "loop" /\ m_todo[m] # <<>>)
    /\ ~(m_pc[m] = "commit" /\ m_pc'[m] = "loop")

\* C18: each apply or revert of one migration is atomic: when a statement of
\* its script, the insert into or delete from _migrations, or the commit
\* fails, none of the migration's statements takes effect, the recorded
\* versions are left as they were before the migration was attempted, and
\* migrate_to returns an error.  With one migrator: from the start of the
\* transaction on, every step but the successful commit leaves the schema and
\* _migrations alone, and the migration is left only with Err.
C18_FailedMigrationIsAtomic ==
    [][\A m \in Migrators :
          InTxNotCommitted(m) =>
              /\ schema' = schema
              /\ records' = records
              /\ m_pc'[m] \notin TxStages =>
                     (m_pc'[m] = "returned" /\ m_result'[m] = "Err")]_vars

\* A migration failed inside its transaction after an earlier migration of
\* the same call was applied.
C18_Witness ==
    \E m \in Migrators :
        /\ m_pc[m] = "returned"
        /\ m_result[m] = "Err"
        /\ m_up[m]
        /\ report[m].applied # <<>>
        /\ m_todo[m] # <<>>
        /\ Recorded = {report[m].applied[i] : i \in 1..Len(report[m].applied)}
        /\ schema = Recorded

\* C19: in every reachable state, in every interleaving of migrators running
\* migrate_to concurrently against the same database, _migrations holds at
\* most one record per version, and a version is recorded if and only if the
\* effects of its up script are committed and have not been reverted.
C19_OneRecordPerAppliedVersion ==
    /\ \A v \in Versions : records[v] <= 1
    /\ Recorded = schema

\* Its first half alone: the primary key keeps one record per version.
C19_AtMostOneRecordPerVersion == \A v \in Versions : records[v] <= 1

\* MigrationReport::is_success, migration.rs:164-169.
IsSuccess(r) ==
    \/ r.final_version = r.target_version
    \/ (r.target_version = I64Max /\ r.applied = <<>> /\ r.reverted = <<>>)

\* The run needed no changes.
NoChanges(r) == r.applied = <<>> /\ r.reverted = <<>>

\* C20: for every MigrationReport returned by migrate_to(target) or
\* migrate_pending(), is_success() is true exactly when final_version is
\* target_version or the run needed no changes; in particular the report of
\* a migrate_pending() that applied every pending migration without error is
\* a success.
C20_SuccessIffTargetReachedOrNoChanges ==
    \A m \in Migrators :
        (m_pc[m] = "returned" /\ m_result[m] = "Ok") =>
            /\ IsSuccess(report[m])
                   <=> (report[m].final_version = report[m].target_version
                        \/ NoChanges(report[m]))
            /\ report[m].target_version = I64Max => IsSuccess(report[m])

\* Its first half for the calls that changed something: the report is a
\* success exactly when the final version is the target.
C20_SuccessIffTargetReachedAfterChanges ==
    \A m \in Migrators :
        (m_pc[m] = "returned" /\ m_result[m] = "Ok" /\ ~NoChanges(report[m])) =>
            (IsSuccess(report[m])
                 <=> report[m].final_version = report[m].target_version)

\* ==========================================================================
\* The auth server's packets (tc-server-auth/src/packets.rs, opcode.rs)
\* ==========================================================================

\* The bytes the filter of decode removes (packets.rs:29).
CR == 13
LF == 10

\* const AUTH_LOGON_CHALLENGE_REQUEST_LEN (packets.rs:42).
AUTH_LOGON_CHALLENGE_REQUEST_LEN == 1 + 2 + 4 + 1 + 1 + 1 + 2 + 4 + 4 + 4 + 4 + 4 + 1

\* The longest body that follows the opcode (and the filler) in a frame.
MaxBody == 2

\* LogonOpcode::from(u8), opcode.rs:18-35.
LogonOpcodeFrom(b) ==
    CASE b = 0 -> "CmdAuthLogonChallenge"
      [] b = 1 -> "CmdAuthLogonProof"
      [] b = 2 -> "CmdAuthReconnectChallenge"
      [] b = 3 -> "CmdAuthReconnectProof"
      [] b = 4 -> "CmdSurveyResult"
      [] b = 16 -> "CmdRealmList"
      [] b = 48 -> "CmdXferInitiate"
      [] b = 49 -> "CmdXferData"
      [] b = 50 -> "CmdXferAccept"
      [] b = 51 -> "CmdXferResume"
      [] b = 52 -> "CmdXferCancel"
      [] OTHER -> "CmdUknownOpcode"

\* LogonPacket::decode, packets.rs:15-39.
Decode(payload) ==
    IF Len(payload) = 0
      THEN [status |-> "Err", error |-> "packet payload is empty"]
      ELSE [status |-> "Ok",
            opcode |-> LogonOpcodeFrom(payload[1]),
            payload |-> IF Len(payload) >= 2
                          THEN SelectSeq(Tail(payload), LAMBDA b : b # CR /\ b # LF)
                          ELSE <<>>]

\* LogonPacket::encode, packets.rs:10-13: whatever the packet, no bytes.
Encode(packet) == <<>>

\* The bytes of a u32 read with from_le_bytes / from_be_bytes, as the number.
FromLeBytes(b) == b[1] + 256 * b[2] + 65536 * b[3] + 16777216 * b[4]
FromBeBytes(b) == b[4] + 256 * b[3] + 65536 * b[2] + 16777216 * b[1]

\* TryFrom<LogonPacket> for AuthLogonChallengeRequest, packets.rs:63-120
\* (Rust indexes from 0, sequences from 1).
ChallengeTryFrom(p) ==
    IF Len(p) <= AUTH_LOGON_CHALLENGE_REQUEST_LEN
      THEN [status |-> "Err"]
      ELSE [status |-> "Ok",
            opcode |-> p[1],
            error |-> p[2],
            size |-> p[3] + 256 * p[4],
            game_name |-> <<p[5], p[6], p[7], p[8]>>,
            version1 |-> p[9], version2 |-> p[10], version3 |-> p[11],
            build |-> p[12] + 256 * p[13],
            platform |-> <<p[17], p[16], p[15], p[14]>>,
            os |-> <<p[21], p[20], p[19], p[18]>>,
            country |-> <<p[25], p[24], p[23], p[22]>>,
            timezone_bias |-> FromLeBytes(<<p[29], p[28], p[27], p[26]>>),
            ip |-> FromBeBytes(<<p[29], p[30], p[31], p[32]>>),
            account_name_len |-> p[33],
            account_name |-> SubSeq(p, 34, Len(p))]

\* The five request decoders.
RequestKinds == {"AuthLogonChallengeRequest", "AuthLogonProofRequest",
                 "AuthReconnectChallengeRequest", "AuthReconnectProofRequest",
                 "AuthRealmlistRequest"}

\* TryFrom<LogonPacket> for each request: packets.rs:63-120 for the challenge,
\* and todo!() for the others (packets.rs:156-161, 196-201, 224-229, 247-252).
TryFrom(kind, packet) ==
    IF kind = "AuthLogonChallengeRequest"
      THEN ChallengeTryFrom(packet.payload)
      ELSE [status |-> "panic"]

\* Frames: an opcode, a run of filler bytes, and a body over CR, LF and 'A'.
PacketBytes == {CR, LF, 65}
OpcodeBytes == {0, 1, 2, 3, 16, 255}
Fillers == {0} \cup ((AUTH_LOGON_CHALLENGE_REQUEST_LEN - 1)..AUTH_LOGON_CHALLENGE_REQUEST_LEN)
Bodies == UNION {[1..n -> PacketBytes] : n \in 0..MaxBody}
Frames == {<<>>} \cup {<<o>> \o [i \in 1..f |-> 65] \o b :
                           o \in OpcodeBytes, f \in Fillers, b \in Bodies}

InitPackets ==
    /\ PoolUnused /\ CacheUnused /\ ServerNew /\ MigUnused /\ ExtUnused
    /\ a_pc = "frame"
    /\ a_frame \in Frames
    /\ a_packet = NoPacket
    /\ a_req = NoRequest
    /\ a_out = <<>>
    /\ a_hist = <<>>
    /\ SrpUnused /\ AcctUnused /\ HealthUnused

\* decode applied to the frame.
PktDecode ==
    /\ a_pc = "frame"
    /\ a_packet' = Decode(a_frame)
    /\ a_pc' = "decoded"
    /\ UNCHANGED <<a_frame, a_req, a_out, a_hist, nonAuthVars>>

\* A request decoder applied to the packet.
PktTryFrom(kind) ==
    /\ a_pc = "decoded"
    /\ a_packet.status = "Ok"
    /\ a_req' = [kind |-> kind] @@ TryFrom(kind, a_packet)
    /\ a_pc' = "converted"
    /\ UNCHANGED <<a_frame, a_packet, a_out, a_hist, nonAuthVars>>

NextPackets ==
    \/ PktDecode
    \/ \E kind \in RequestKinds : PktTryFrom(kind)

SpecPackets == InitPackets /\ [][NextPackets]_vars

\* What removing only a trailing CR LF leaves of a body.
StripTrailingCrLf(b) ==
    IF Len(b) >= 2 /\ b[Len(b) - 1] = CR /\ b[Len(b)] = LF
      THEN SubSeq(b, 1, Len(b) - 2)
      ELSE b

\* C23: decode of a non-empty frame yields as payload the bytes after the
\* opcode with only a trailing CR LF removed; every other body byte, CR and LF
\* included, is kept at its offset.
C23_DecodeStripsOnlyTrailingCrLf ==
    (a_pc # "frame" /\ Len(a_frame) > 0) =>
        /\ a_packet.status = "Ok"
        /\ a_packet.payload = StripTrailingCrLf(Tail(a_frame))

\* What does hold of decode: the payload is the body without any CR or LF
\* byte, the other bytes in their order.
C23_DecodeRemovesEveryCrLf ==
    (a_pc # "frame" /\ Len(a_frame) > 0) =>
        /\ a_packet.status = "Ok"
        /\ a_packet.opcode = LogonOpcodeFrom(Head(a_frame))
        /\ \A i \in 1..Len(a_packet.payload) : a_packet.payload[i] \notin {CR, LF}
        /\ Len(a_packet.payload) =
               Cardinality({i \in 2..Len(a_frame) : a_frame[i] \notin {CR, LF}})

\* C24: each of the five request decoders returns a value or an error for
\* every input, an error when the input is shorter than the fixed portion of
\* the request, and never panics.
C24_DecodersNeverPanic ==
    a_pc = "converted" =>
        /\ a_req.status \in {"Ok", "Err"}
        /\ Len(a_packet.payload) < AUTH_LOGON_CHALLENGE_REQUEST_LEN => a_req.status = "Err"

\* What does hold: the decoder of AuthLogonChallengeRequest returns a value or
\* an error, and an error for every payload of at most the fixed length.
C24_ChallengeDecoderNeverPanics ==
    (a_pc = "converted" /\ a_req.kind = "AuthLogonChallengeRequest") =>
        /\ a_req.status \in {"Ok", "Err"}
        /\ Len(a_packet.payload) <= AUTH_LOGON_CHALLENGE_REQUEST_LEN => a_req.status = "Err"
        /\ a_req.status = "Ok" =>
               a_req.account_name = SubSeq(a_packet.payload, 34, Len(a_packet.payload))

\* ==========================================================================
\* One connection of the auth server: Server::read_loop (server.rs:203-228)
\* with AuthServer::handle (tc-server-auth/src/handler.rs:23-61)
\* ==========================================================================

\* The most frames one connection reads.
MaxReads == 4

\* std::str::from_utf8(bytes) is Ok: the bytes 0xF8..0xFF occur in no UTF-8
\* text (the frames below hold no other byte above 0x7F).
Utf8Ok(bytes) == \A i \in 1..Len(bytes) : bytes[i] < 248

\* The handler's return value: it builds no packet (handler.rs:59, Ok(())).
NoResponse == [status |-> "none"]

\* AuthServer::handle, handler.rs:23-61: the decoded request (for the log), the
\* outcome, and the response handed back to read_loop.
Handle(packet) ==
    IF packet.opcode = "CmdAuthLogonChallenge"
      THEN LET req == ChallengeTryFrom(packet.payload) IN
           IF req.status = "Ok"
                /\ ~(/\ Utf8Ok(req.game_name) /\ Utf8Ok(req.os) /\ Utf8Ok(req.platform)
                     /\ Utf8Ok(req.country) /\ Utf8Ok(req.account_name))
             THEN [outcome |-> "panic", req |-> req, response |-> NoResponse]
             ELSE [outcome |-> "Ok", req |-> req, response |-> NoResponse]
      ELSE [outcome |-> "Ok", req |-> NoRequest, response |-> NoResponse]

\* What the client sends on the connection: a LogonChallenge for the account,
\* one whose game name is not UTF-8, a LogonProof with the M1 the server
\* expects for the account, and one with another M1.
ChallengeFrame == <<0>> \o [i \in 1..(AUTH_LOGON_CHALLENGE_REQUEST_LEN + 1) |-> 65]
BadTextChallengeFrame ==
    <<0>> \o [i \in 1..(AUTH_LOGON_CHALLENGE_REQUEST_LEN + 1) |-> IF i = 5 THEN 255 ELSE 65]
GoodProofFrame == <<1, 65, 65>>
BadProofFrame == <<1, 65, 66>>
ClientFrames == {ChallengeFrame, BadTextChallengeFrame, GoodProofFrame, BadProofFrame}

InitAuth == PoolUnused /\ CacheUnused /\ ServerNew /\ MigUnused /\ AppUnused

\* reader.read returned n > 0 bytes and decode succeeded (server.rs:215-217).
AuthRead(frame) ==
    /\ a_pc = "read"
    /\ Len(a_hist) < MaxReads
    /\ a_frame' = frame
    /\ a_packet' = Decode(frame)
    /\ a_pc' = IF Decode(frame).status = "Ok" THEN "handle" ELSE "returned"
    /\ UNCHANGED <<a_req, a_out, a_hist, nonAuthVars>>

\* reader.read returned 0 (the client closed) or an error: read_loop returns.
AuthReadEnd ==
    /\ a_pc = "read"
    /\ a_pc' = "returned"
    /\ UNCHANGED <<a_frame, a_packet, a_req, a_out, a_hist, nonAuthVars>>

\* handler.handle(packet, ..) and the send of its response (server.rs:219-224).
AuthHandle ==
    /\ a_pc = "handle"
    /\ LET h == Handle(a_packet) IN
         /\ a_req' = h.req
         /\ a_pc' = IF h.outcome = "panic" THEN "panicked" ELSE "read"
         /\ a_out' = IF h.outcome = "Ok" /\ h.response # NoResponse
                       THEN Append(a_out, Encode(h.response))
                       ELSE a_out
    /\ a_hist' = Append(a_hist, a_frame)
    /\ UNCHANGED <<a_frame, a_packet, nonAuthVars>>

NextAuth ==
    \/ \E frame \in ClientFrames : AuthRead(frame)
    \/ AuthReadEnd
    \/ AuthHandle

SpecAuth == InitAuth /\ [][NextAuth]_vars

\* The connection's task is scheduled: a packet that was read is handled.
SpecAuthFair == SpecAuth /\ WF_vars(AuthHandle)

\* The LogonProof frames with a mismatching M1 handled after a LogonChallenge
\* of the account was handled (the positions in a_hist).
ChallengeHandledBefore(i) == \E j \in 1..(i - 1) : a_hist[j] = ChallengeFrame
FailedProofs == {i \in 1..Len(a_hist) : a_hist[i] = BadProofFrame /\ ChallengeHandledBefore(i)}

\* The frames sent that are a LogonProof response with error # 0.
FailureResponses == {i \in 1..Len(a_out) : Len(a_out[i]) >= 2 /\ a_out[i][1] = 1 /\ a_out[i][2] # 0}

\* C21: a LogonProof with a mismatching M1 after a challenge is answered with
\* an auth-failure response (error # 0), and after 3 failed proofs the
\* connection is closed.
C21_MismatchingProofAnsweredAndCounted ==
    /\ Cardinality(FailureResponses) >= Cardinality(FailedProofs)
    /\ Cardinality(FailedProofs) >= 3 => a_pc = "returned"

\* The frames sent whose opcode byte is b.
Responses(b) == {i \in 1..Len(a_out) : Len(a_out[i]) >= 1 /\ a_out[i][1] = b}

\* C22: a LogonChallenge of the account is eventually answered with a
\* LogonChallengeResponse, and a following LogonProof with the correct M1 is
\* eventually answered with a LogonProofResponse.
C22_HandshakeEventuallyAnswered ==
    /\ (a_pc = "handle" /\ a_frame = ChallengeFrame) ~> (Responses(0) # {})
    /\ (a_pc = "handle" /\ a_frame = GoodProofFrame /\ ChallengeHandledBefore(Len(a_hist) + 1))
           ~> (Responses(1) # {})

\* What does hold of the connection: the server sends nothing, whatever it
\* received.
C22_NothingIsEverSent == a_out = <<>>

\* ==========================================================================
\* SRP6 (tc-core/src/crypto/srp6.rs, defines.rs; the key types of macros.rs)
\* ==========================================================================

\* define_byte_value!(K, 3) and define_byte_value!(Generator, 7), defines.rs:36-37.
K == 3
Generator == 7

\* The sizes of the keys in bytes, defines.rs:6-12.
PUBLIC_KEY_SIZE == 32
PRIVATE_KEY_SIZE == 32
SALT_SIZE == 32
PASSWORD_VERIFIER_SIZE == 32
S_KEY_SIZE == 32

\* The modulus N. The program's LargeSafePrime (defines.rs:17-25) has 256
\* bits; the model computes with a safe prime of which 7 is a primitive root.
SmallSafePrime == 11

\* Private keys (a, b) range over 0..MaxExponent, salts over 0..MaxSalt,
\* usernames and passwords have 1..MaxText characters.
MaxExponent == 3
MaxSalt == 1
MaxText == 1

Abs(n) == IF n < 0 THEN -n ELSE n

\* BigInt::to_bytes_le().1: the magnitude in base 256, least byte first, one
\* byte 0 for zero.
RECURSIVE ToBytesLe(_)
ToBytesLe(n) == IF n < 256 THEN <<n>> ELSE <<n % 256>> \o ToBytesLe(n \div 256)

\* From<BigInt> for a key of size bytes, macros.rs:92-100 (every number
\* converted is below N, so it has at most size bytes).
KeyFrom(n, size) ==
    LET b == ToBytesLe(Abs(n)) IN
      [i \in 1..size |-> IF i <= Len(b) THEN b[i] ELSE 0]

\* to_bigint of a key, macros.rs:87-89: BigInt::from_bytes_le(Sign::Plus, key).
RECURSIVE ToBigInt(_)
ToBigInt(key) == IF key = <<>> THEN 0 ELSE key[1] + 256 * ToBigInt(Tail(key))

\* as_split_slice, macros.rs:49-62: the key after its run of zero bytes,
\* made even; the index runs past the end of a key that is all zero.
RECURSIVE LeadZeros(_, _)
LeadZeros(key, lead) ==
    IF lead + 1 > Len(key) THEN -1
    ELSE IF key[lead + 1] = 0 THEN LeadZeros(key, lead + 1)
    ELSE lead
AsSplitSlice(key) ==
    LET lead == LeadZeros(key, 0) IN
      IF lead = -1
        THEN [status |-> "panic"]
        ELSE [status |-> "Ok",
              slice |-> SubSeq(key, (IF lead % 2 # 0 THEN lead + 1 ELSE lead) + 1, Len(key))]

\* b^e mod m for b in 0..m-1, by squaring.
RECURSIVE PowMod(_, _, _)
PowMod(b, e, m) ==
    IF e = 0 THEN 1 % m
    ELSE LET h == PowMod(b, e \div 2, m) IN
           IF e % 2 = 0 THEN (h * h) % m ELSE (((h * h) % m) * b) % m

\* The power of the magnitude with the sign of the base put back (the
\* remainder of truncating division); not what BigInt::modpow returns.
ModPow_Truncating(base, e, m) ==
    IF base < 0 /\ e % 2 = 1 THEN -PowMod(Abs(base) % m, e, m) ELSE PowMod(Abs(base) % m, e, m)

\* BigInt::modpow (num-bigint): the result is in [0, m) for m > 0, the base
\* reduced like mod_floor.
ModPow(base, e, m) == PowMod(base % m, e, m)

\* SHA-1 without collisions: a digest is represented by the message it is
\* the digest of.
Sha1(message) == [sha1 |-> message]

\* str::to_uppercase on ASCII text (character codes).
Upper(text) == [i \in 1..Len(text) |-> IF text[i] >= 97 /\ text[i] <= 122 THEN text[i] - 32 ELSE text[i]]

\* calculate_x, srp6.rs:8-21: SHA1(salt_le || SHA1(username ":" password));
\* the inner digest stands in the message for its 20 bytes.
calculate_x(username, password, salt) ==
    LET pd == Sha1(username \o <<58>> \o password) IN
      Sha1(salt \o <<pd>>)

\* calculate_u, srp6.rs:23-30.
calculate_u(client_public_key, server_public_key) ==
    Sha1(client_public_key \o server_public_key)

\* The inputs of the model.
TextChars == {97, 65}
Texts == UNION {[1..n -> TextChars] : n \in 1..MaxText}
Salts == {KeyFrom(n, SALT_SIZE) : n \in 0..MaxSalt}
PublicKeys == {KeyFrom(n, PUBLIC_KEY_SIZE) : n \in 0..SmallSafePrime}
PrivateKeys == {KeyFrom(n, PRIVATE_KEY_SIZE) : n \in 0..MaxExponent}

\* The characters of an identity (those of the texts, upper-cased or not, and
\* the colon), and a text read as a numeral over them.
IdentityChars == TextChars \cup {58}
CharDigit(c) == Cardinality({d \in IdentityChars : d <= c})
RECURSIVE TextNumber(_)
TextNumber(text) ==
    IF text = <<>> THEN 0
    ELSE CharDigit(text[1]) + (Cardinality(IdentityChars) + 1) * TextNumber(Tail(text))

\* Sha1Hash::from_bytes_le(digest).to_bigint(): the number a digest denotes.
\* Different digests denote different numbers: the digest of two public keys
\* (calculate_u) is numbered by the pair, the digest of a salt and an identity
\* digest (calculate_x) by the salt and the identity.
HashToBigInt(digest) ==
    LET message == digest.sha1 IN
      IF Len(message) = PUBLIC_KEY_SIZE + PUBLIC_KEY_SIZE
        THEN ToBigInt(SubSeq(message, 1, PUBLIC_KEY_SIZE))
               + (SmallSafePrime + 1) * ToBigInt(SubSeq(message, PUBLIC_KEY_SIZE + 1, Len(message)))
        ELSE ToBigInt(SubSeq(message, 1, SALT_SIZE))
               + (MaxSalt + 1) * TextNumber(message[SALT_SIZE + 1].sha1)

\* calculate_password_verifier, srp6.rs:44-56.
calculate_password_verifier(username, password, salt, g, lsp) ==
    KeyFrom(ModPow(g, HashToBigInt(calculate_x(username, password, salt)), lsp),
            PASSWORD_VERIFIER_SIZE)

\* calculate_client_public_key, srp6.rs:58-68.
calculate_client_public_key(client_private_key, g, lsp) ==
    KeyFrom(ModPow(g, ToBigInt(client_private_key), lsp), PUBLIC_KEY_SIZE)

\* calculate_server_public_key, srp6.rs:70-83.
calculate_server_public_key(verifier, server_private_key, g, lsp) ==
    KeyFrom((K * ToBigInt(verifier) + ModPow(g, ToBigInt(server_private_key), lsp)) % lsp,
            PUBLIC_KEY_SIZE)

\* calculate_client_s, srp6.rs:85-106.
calculate_client_s(client_private_key, server_public_key, x, u, k, g, lsp) ==
    LET cpk == ToBigInt(client_private_key)
        spk == ToBigInt(server_public_key)
        xn == HashToBigInt(x)
        un == HashToBigInt(u)
    IN  KeyFrom(ModPow(spk - (k * ModPow(g, xn, lsp)), cpk + un * xn, lsp), S_KEY_SIZE)

\* calculate_server_s, srp6.rs:108-122.
calculate_server_s(client_public_key, server_private_key, verifier, u, lsp) ==
    LET cpk == ToBigInt(client_public_key)
        spk == ToBigInt(server_private_key)
        v == ToBigInt(verifier)
        un == HashToBigInt(u)
    IN  KeyFrom(ModPow(cpk * ModPow(v, un, lsp), spk, lsp), S_KEY_SIZE)

\* The bytes of s at the even, or the odd, offsets (offsets from 0).
EveryOther(s, parity) ==
    LET idx == {i \in 1..Len(s) : (i - 1) % 2 = parity} IN
      [j \in 1..Cardinality(idx) |-> s[2 * (j - 1) + parity + 1]]

\* sha1_interleaved, srp6.rs:208-236: the two digests whose bytes alternate
\* in the session key.
sha1_interleaved(s_key) ==
    LET s == AsSplitSlice(s_key) IN
      IF s.status = "panic"
        THEN [status |-> "panic"]
        ELSE [status |-> "Ok",
              key |-> <<Sha1(EveryOther(s.slice, 0)), Sha1(EveryOther(s.slice, 1))>>]

\* calculate_server_session_key, srp6.rs:124-135.
calculate_server_session_key(client_public_key, server_public_key, server_private_key, verifier, lsp) ==
    LET u == calculate_u(client_public_key, server_public_key)
        s == calculate_server_s(client_public_key, server_private_key, verifier, u, lsp)
    IN  sha1_interleaved(s) @@ [s |-> s]

\* The computations asked for: both sides of a handshake of an account, the
\* server's side with a public key chosen by the client, and the verifier
\* of a new account (routes/account.rs:36-45).
Accounts == [username : Texts, password : Texts, salt : Salts]
SrpInputs ==
    [kind : {"handshake"}, account : Accounts, a : PrivateKeys, b : PrivateKeys,
     u : {calculate_u(ka, KeyFrom(0, PUBLIC_KEY_SIZE)) : ka \in PrivateKeys}]
    \cup [kind : {"server"}, account : Accounts, b : PrivateKeys, A : PublicKeys]
    \cup [kind : {"create_account"}, account : Accounts]

InitSrp ==
    /\ PoolUnused /\ CacheUnused /\ ServerNew /\ MigUnused /\ ExtUnused
    /\ AuthNew /\ AcctUnused /\ HealthUnused
    /\ srp_in \in SrpInputs
    /\ srp_out = NoOutput

VerifierOf(account) ==
    calculate_password_verifier(account.username, account.password, account.salt,
                                Generator, SmallSafePrime)

\* The client and the server each compute S (calculate_client_s,
\* calculate_server_s) from the keys of one handshake.
SrpHandshake ==
    /\ srp_in.kind = "handshake"
    /\ srp_out = NoOutput
    /\ LET x == calculate_x(srp_in.account.username, srp_in.account.password, srp_in.account.salt)
           v == VerifierOf(srp_in.account)
           A == calculate_client_public_key(srp_in.a, Generator, SmallSafePrime)
           B == calculate_server_public_key(v, srp_in.b, Generator, SmallSafePrime)
       IN  srp_out' = [status |-> "Ok", x |-> x, v |-> v, A |-> A, B |-> B,
                       client_s |-> calculate_client_s(srp_in.a, B, x, srp_in.u, K,
                                                       Generator, SmallSafePrime),
                       server_s |-> calculate_server_s(A, srp_in.b, v, srp_in.u,
                                                       SmallSafePrime)]
    /\ UNCHANGED <<srp_in, nonSrpVars>>

\* The server computes the session key from the public key the client sent.
SrpServerSessionKey ==
    /\ srp_in.kind = "server"
    /\ srp_out = NoOutput
    /\ LET v == VerifierOf(srp_in.account)
           B == calculate_server_public_key(v, srp_in.b, Generator, SmallSafePrime)
       IN  srp_out' = calculate_server_session_key(srp_in.A, B, srp_in.b, v, SmallSafePrime)
    /\ UNCHANGED <<srp_in, nonSrpVars>>

\* create_account computes the verifier it stores, account.rs:36-45.
SrpCreateAccount ==
    /\ srp_in.kind = "create_account"
    /\ srp_out = NoOutput
    /\ srp_out' = [status |-> "Ok",
                   x |-> calculate_x(srp_in.account.username, srp_in.account.password,
                                     srp_in.account.salt),
                   verifier |-> VerifierOf(srp_in.account)]
    /\ UNCHANGED <<srp_in, nonSrpVars>>

NextSrp == SrpHandshake \/ SrpServerSessionKey \/ SrpCreateAccount

SpecSrp == InitSrp /\ [][NextSrp]_vars

\* C25: when the client public key A is zero or zero modulo N, the server's
\* computation ends with an InvalidPublicKey error: no session key, no panic.
C25_ZeroPublicKeyIsRejected ==
    (srp_in.kind = "server" /\ srp_out # NoOutput /\ ToBigInt(srp_in.A) % SmallSafePrime = 0) =>
        (srp_out.status = "Err" /\ srp_out.error = "InvalidPublicKey")

\* What does hold: for such a key the computation panics in as_split_slice
\* (S = 0) or returns the session key of S = 1 (b = 0).
C25_ZeroPublicKeyPanicsOrGivesKey ==
    (srp_in.kind = "server" /\ srp_out # NoOutput /\ ToBigInt(srp_in.A) % SmallSafePrime = 0) =>
        \/ srp_out.status = "panic" /\ ToBigInt(srp_out.s) = 0
        \/ srp_out.status = "Ok" /\ ToBigInt(srp_out.s) = 1 /\ ToBigInt(srp_in.b) = 0

\* C26: with v = g^x mod N, A = g^a mod N and B = (k*v + g^b) mod N, the S of
\* calculate_client_s equals the S of calculate_server_s, also when
\* B - k*g^x is negative before the reduction.
C26_ClientSEqualsServerS ==
    (srp_in.kind = "handshake" /\ srp_out # NoOutput) => srp_out.client_s = srp_out.server_s

\* A handshake was computed in which B - k*g^x is negative.
C26_Witness ==
    /\ srp_in.kind = "handshake" /\ srp_out # NoOutput
    /\ ToBigInt(srp_out.B) - K * ToBigInt(srp_out.v) < 0
    /\ srp_out.client_s = srp_out.server_s
    /\ ToBigInt(srp_out.client_s) > 1

\* C27: calculate_x and calculate_password_verifier give the same result as
\* for the upper-cased username and password.
C27_IdentityIsUpperCased ==
    (srp_in.kind = "create_account" /\ srp_out # NoOutput) =>
        LET acc == srp_in.account IN
          /\ srp_out.x = calculate_x(Upper(acc.username), Upper(acc.password), acc.salt)
          /\ srp_out.verifier = calculate_password_verifier(Upper(acc.username), Upper(acc.password),
                                                           acc.salt, Generator, SmallSafePrime)

\* What does hold: the identity hashed is the username and the password as
\* given.
C27_IdentityIsHashedAsGiven ==
    (srp_in.kind = "create_account" /\ srp_out # NoOutput) =>
        LET acc == srp_in.account IN
          /\ srp_out.x = Sha1(acc.salt \o <<Sha1(acc.username \o <<58>> \o acc.password)>>)
          /\ (acc.username = Upper(acc.username) /\ acc.password = Upper(acc.password))
                 <=> srp_out.x = calculate_x(Upper(acc.username), Upper(acc.password), acc.salt)

\* ==========================================================================
\* Account creation (tc-server-api/src/routes/account.rs, sql.rs)
\* ==========================================================================

\* const ACCOUNT_USERNAME_MAX_LENGTH, ACCOUNT_PASSWORD_MAX_LENGTH (account.rs:10-11).
ACCOUNT_USERNAME_MAX_LENGTH == 16
ACCOUNT_PASSWORD_MAX_LENGTH == 16

\* The usernames and passwords of the requests: short ones and one too long.
TooLong(max) == [i \in 1..(max + 1) |-> 65]
RequestUsernames == {<<65>>, <<66>>, TooLong(ACCOUNT_USERNAME_MAX_LENGTH)}
RequestPasswords == {<<80>>, TooLong(ACCOUNT_PASSWORD_MAX_LENGTH)}

\* The requests arrive at a table that is empty. The source holds no
\* definition of table account: it may or may not have a unique index on
\* username.
InitAcct ==
    /\ PoolUnused /\ CacheUnused /\ ServerNew /\ MigUnused /\ ExtUnused
    /\ AuthNew /\ SrpUnused /\ HealthUnused
    /\ accounts = <<>>
    /\ acct_unique \in BOOLEAN
    /\ realmcharacters = {}
    /\ acct_req \in [Requests -> [pc : {"start"}, username : RequestUsernames,
                                  password : RequestPasswords]]

\* ACCOUNT_EXISTS_BY_USERNAME, sql.rs:2-3.
AccountExists(username) == \E i \in 1..Len(accounts) : accounts[i].username = username

AcctRespond(r, response) ==
    acct_req' = [acct_req EXCEPT ![r] = [pc |-> "done", username |-> @.username,
                                         password |-> @.password, response |-> response]]

\* The length checks, account.rs:24-29.
AcctValidate(r) ==
    /\ acct_req[r].pc = "start"
    /\ IF Len(acct_req[r].username) > ACCOUNT_USERNAME_MAX_LENGTH
         THEN AcctRespond(r, "BadRequest: Username is too long")
       ELSE IF Len(acct_req[r].password) > ACCOUNT_PASSWORD_MAX_LENGTH
         THEN AcctRespond(r, "BadRequest: Password is too long")
       ELSE acct_req' = [acct_req EXCEPT ![r].pc = "exists"]
    /\ UNCHANGED <<accounts, acct_unique, realmcharacters, nonAcctVars>>

\* account_exists_by_username, account.rs:31-36 and 67-77: one statement.
AcctCheckExists(r) ==
    /\ acct_req[r].pc = "exists"
    /\ IF AccountExists(acct_req[r].username)
         THEN AcctRespond(r, "BadRequest: Username already in use")
         ELSE acct_req' = [acct_req EXCEPT ![r].pc = "create"]
    /\ UNCHANGED <<accounts, acct_unique, realmcharacters, nonAcctVars>>

\* The verifier and db.execute(ACCOUNT_CREATE), account.rs:38-58: a second
\* statement, a plain INSERT; it fails on a unique index, if there is one.
AcctCreate(r) ==
    /\ acct_req[r].pc = "create"
    /\ IF acct_unique /\ AccountExists(acct_req[r].username)
         THEN /\ AcctRespond(r, "Database")
              /\ UNCHANGED accounts
         ELSE /\ accounts' = Append(accounts, [id |-> Len(accounts) + 1,
                                               username |-> acct_req[r].username])
              /\ acct_req' = [acct_req EXCEPT ![r].pc = "init_realm"]
    /\ UNCHANGED <<acct_unique, realmcharacters, nonAcctVars>>

\* db.execute(ACCOUNT_INIT_REALM_CHARACTERS), account.rs:60-64: rows for
\* every account that has none (one realm).
AcctInitRealmCharacters(r) ==
    /\ acct_req[r].pc = "init_realm"
    /\ realmcharacters' = {accounts[i].id : i \in 1..Len(accounts)}
    /\ AcctRespond(r, "Created")
    /\ UNCHANGED <<accounts, acct_unique, nonAcctVars>>

AcctStep(r) ==
    \/ AcctValidate(r)
    \/ AcctCheckExists(r)
    \/ AcctCreate(r)
    \/ AcctInitRealmCharacters(r)

NextAcct == \E r \in Requests : AcctStep(r)

SpecAcct == InitAcct /\ [][NextAcct]_vars

\* C28: no two account rows have the same username, under any interleaving of
\* concurrent create_account requests with the same username.
C28_UsernameIsUnique ==
    \A i, j \in 1..Len(accounts) :
        accounts[i].username = accounts[j].username => i = j

\* What does hold: with a unique index on account.username the rows have
\* different usernames (the second request gets a database error).
C28_UniqueWithIndex == acct_unique => C28_UsernameIsUnique

\* ==========================================================================
\* The pool's health check with time (pool.rs:153-172 and 203-237,
\* connection.rs:27-33)
\* ==========================================================================

\* The configurations: min_connections up to MaxMinIdle, health_check_interval
\* up to MaxInterval and idle_timeout up to MaxIdleTimeout units of time.
MaxMinIdle == 1
MaxInterval == 2
MaxIdleTimeout == 2

HealthCfgs == [min_connections : 0..MaxMinIdle,
               idle_timeout : 1..MaxIdleTimeout,
               health_check_interval : 1..MaxInterval]

\* ConnectionPool::new, pool.rs:66-94: min_connections connections, just
\* created, and the health-check task spawned.
InitHealth ==
    /\ PoolUnused /\ CacheUnused /\ ServerNew /\ MigUnused /\ ExtUnused
    /\ AuthNew /\ SrpUnused /\ AcctUnused
    /\ hc_cfg \in HealthCfgs
    /\ hc_idle = [i \in 1..hc_cfg.min_connections |-> i]
    /\ hc_active = {}
    /\ hc_age = [c \in HealthConns |-> 0]
    /\ hc_idle_for = [c \in HealthConns |-> 0]
    /\ hc_pc = "loop"
    /\ hc_sleep = 0
    /\ hc_woken = FALSE
    /\ hc_shutdown = "no"
    /\ hc_last = [idle_drops |-> 0, healthy |-> 0]

InIdle(c) == \E i \in 1..Len(hc_idle) : hc_idle[i] = c

\* Elapsed times are counted up to one more than the idle timeout.
Older(age) == IF age > hc_cfg.idle_timeout THEN age ELSE age + 1

\* PooledConnection::is_past_idle_timeout, connection.rs:31-33.
is_past_idle_timeout(c) == hc_age[c] > hc_cfg.idle_timeout

\* One unit of time passes. The sleep of the select fires when it is due, and
\* the steps of the task take no time.
HcTick ==
    /\ hc_pc \in {"select", "exited"}
    /\ hc_pc = "select" => hc_sleep > 0
    /\ hc_sleep' = IF hc_pc = "select" THEN hc_sleep - 1 ELSE hc_sleep
    /\ hc_age' = [c \in HealthConns |->
                    IF InIdle(c) \/ c \in hc_active THEN Older(hc_age[c]) ELSE hc_age[c]]
    /\ hc_idle_for' = [c \in HealthConns |->
                         IF InIdle(c) THEN Older(hc_idle_for[c]) ELSE hc_idle_for[c]]
    /\ UNCHANGED <<hc_cfg, hc_idle, hc_active, hc_pc, hc_woken, hc_shutdown, hc_last,
                   nonHealthVars>>

\* health_check_loop enters the select, pool.rs:204-210: a new sleep and a
\* new waiter of shutdown_notify.
HcSelect ==
    /\ hc_pc = "loop"
    /\ hc_pc' = "select"
    /\ hc_sleep' = hc_cfg.health_check_interval
    /\ hc_woken' = FALSE
    /\ UNCHANGED <<hc_cfg, hc_idle, hc_active, hc_age, hc_idle_for, hc_shutdown, hc_last,
                   nonHealthVars>>

\* The sleep branch of the select, pool.rs:206-208 (the waiter is dropped).
HcStart ==
    /\ hc_pc = "select"
    /\ hc_sleep = 0
    /\ hc_pc' = "check"
    /\ hc_woken' = FALSE
    /\ UNCHANGED <<hc_cfg, hc_idle, hc_active, hc_age, hc_idle_for, hc_sleep, hc_shutdown,
                   hc_last, nonHealthVars>>

\* The notified branch of the select, pool.rs:209: break.
HcNotified ==
    /\ hc_pc = "select"
    /\ hc_woken
    /\ hc_pc' = "exited"
    /\ UNCHANGED <<hc_cfg, hc_idle, hc_active, hc_age, hc_idle_for, hc_sleep, hc_woken,
                   hc_shutdown, hc_last, nonHealthVars>>

\* The loop of run_health_check, pool.rs:218-234, over the connections left,
\* with the queries of the connections in failing returning Err.
RECURSIVE CheckEach(_, _, _, _)
CheckEach(conns, healthy, idle_drops, failing) ==
    IF conns = <<>>
      THEN [healthy |-> healthy, idle_drops |-> idle_drops]
    ELSE IF Len(healthy) >= hc_cfg.min_connections /\ is_past_idle_timeout(Head(conns))
      THEN CheckEach(Tail(conns), healthy, idle_drops + 1, failing)
    ELSE IF Head(conns) \in failing
      THEN CheckEach(Tail(conns), healthy, idle_drops, failing)
    ELSE CheckEach(Tail(conns), Append(healthy, Head(conns)), idle_drops, failing)

\* run_health_check, pool.rs:214-237 (under the lock of connections): the
\* connections kept are touched.
HcRun(failing) ==
    /\ hc_pc = "check"
    /\ LET res == CheckEach(hc_idle, <<>>, 0, failing)
           kept == {res.healthy[i] : i \in 1..Len(res.healthy)}
       IN  /\ hc_idle' = res.healthy
           /\ hc_age' = [c \in HealthConns |->
                           IF c \in kept \/ InIdle(c) THEN 0 ELSE hc_age[c]]
           /\ hc_idle_for' = [c \in HealthConns |->
                                IF InIdle(c) /\ c \notin kept THEN 0 ELSE hc_idle_for[c]]
           /\ hc_last' = [idle_drops |-> res.idle_drops, healthy |-> Len(res.healthy)]
    /\ hc_pc' = "loop"
    /\ UNCHANGED <<hc_cfg, hc_active, hc_sleep, hc_woken, hc_shutdown, nonHealthVars>>

\* acquire, pool.rs:96-131: the front idle connection, or a new one; touched.
HcAcquire ==
    /\ hc_shutdown = "no"
    /\ Cardinality(hc_active) < MaxHealthConns
    /\ LET c == IF hc_idle # <<>> THEN Head(hc_idle)
                ELSE CHOOSE n \in HealthConns : n \notin hc_active IN
         /\ hc_idle' = IF hc_idle # <<>> THEN Tail(hc_idle) ELSE hc_idle
         /\ hc_active' = hc_active \cup {c}
         /\ hc_age' = [hc_age EXCEPT ![c] = 0]
         /\ hc_idle_for' = [hc_idle_for EXCEPT ![c] = 0]
    /\ UNCHANGED <<hc_cfg, hc_pc, hc_sleep, hc_woken, hc_shutdown, hc_last, nonHealthVars>>

\* return_connection, pool.rs:133-151, with the push_back of its task.
HcReturn(c) ==
    /\ c \in hc_active
    /\ hc_active' = hc_active \ {c}
    /\ IF hc_shutdown # "no"
         THEN /\ hc_age' = [hc_age EXCEPT ![c] = 0]
              /\ UNCHANGED hc_idle
         ELSE /\ hc_idle' = Append(hc_idle, c)
              /\ UNCHANGED hc_age
    /\ hc_idle_for' = [hc_idle_for EXCEPT ![c] = 0]
    /\ UNCHANGED <<hc_cfg, hc_pc, hc_sleep, hc_woken, hc_shutdown, hc_last, nonHealthVars>>

\* shutdown, pool.rs:154-155: the flag, then notify_waiters, which wakes the
\* waiters there are and leaves nothing for a later waiter.
HcShutdown ==
    /\ hc_shutdown = "no"
    /\ hc_shutdown' = "notified"
    /\ hc_woken' = (hc_pc = "select")
    /\ UNCHANGED <<hc_cfg, hc_idle, hc_active, hc_age, hc_idle_for, hc_pc, hc_sleep, hc_last,
                   nonHealthVars>>

\* shutdown, pool.rs:157-171: no connection active any more (or the deadline
\* passed): the idle connections are dropped.
HcShutdownClear ==
    /\ hc_shutdown = "notified"
    /\ hc_shutdown' = "cleared"
    /\ hc_idle' = <<>>
    /\ hc_age' = [c \in HealthConns |-> IF InIdle(c) THEN 0 ELSE hc_age[c]]
    /\ hc_idle_for' = [c \in HealthConns |-> IF InIdle(c) THEN 0 ELSE hc_idle_for[c]]
    /\ UNCHANGED <<hc_cfg, hc_active, hc_pc, hc_sleep, hc_woken, hc_last, nonHealthVars>>

HcCheck == \E failing \in SUBSET {hc_idle[i] : i \in 1..Len(hc_idle)} : HcRun(failing)

NextHealth ==
    \/ HcTick
    \/ HcSelect
    \/ HcStart
    \/ HcNotified
    \/ HcCheck
    \/ HcAcquire
    \/ \E c \in HealthConns : HcReturn(c)
    \/ HcShutdown
    \/ HcShutdownClear

SpecHealth == InitHealth /\ [][NextHealth]_vars

\* Time passes and the health-check task and shutdown are scheduled.
SpecHealthFair ==
    /\ SpecHealth
    /\ WF_vars(HcTick) /\ WF_vars(HcSelect) /\ WF_vars(HcStart) /\ WF_vars(HcNotified)
    /\ WF_vars(HcCheck) /\ WF_vars(HcShutdownClear)

\* C29: after shutdown is called the health-check task eventually leaves
\* health_check_loop, also when notify_waiters runs while the task is inside
\* run_health_check.
C29_ShutdownEndsHealthCheck == (hc_shutdown # "no") ~> (hc_pc = "exited")

\* What does hold: a task that is woken and takes the notified branch has
\* left the loop for good.
C29_ExitedStaysExited == [][hc_pc = "exited" => hc_pc' = "exited"]_vars

\* C30: with health_check_interval < idle_timeout, a connection that stays
\* idle, not acquired, for longer than idle_timeout is eventually dropped
\* whenever more than min_connections connections are idle, and a health
\* check that drops a connection for idleness leaves at least min_connections.
C30_IdleConnectionsAreEvicted ==
    /\ \A c \in HealthConns :
           (/\ hc_cfg.health_check_interval < hc_cfg.idle_timeout
            /\ InIdle(c)
            /\ hc_idle_for[c] > hc_cfg.idle_timeout
            /\ Len(hc_idle) > hc_cfg.min_connections)
             ~> (~InIdle(c) \/ Len(hc_idle) <= hc_cfg.min_connections)
    /\ [](hc_last.idle_drops > 0 => hc_last.healthy >= hc_cfg.min_connections)

\* What does hold: a health check that drops a connection for idleness leaves
\* at least min_connections idle connections.
C30_IdleDropsKeepMinimum ==
    hc_last.idle_drops > 0 => hc_last.healthy >= hc_cfg.min_connections

\* What does hold: with health_check_interval < idle_timeout, the connections
\* a health check finds past the idle timeout came back from a guard since
\* the check before; one that stayed idle was touched by that check.
C30_OnlyReturnedArePastIdleTimeout ==
    (hc_cfg.health_check_interval < hc_cfg.idle_timeout /\ hc_pc = "check") =>
        \A c \in HealthConns :
            (InIdle(c) /\ is_past_idle_timeout(c)) =>
                hc_idle_for[c] <= hc_cfg.health_check_interval

\* ========================================= claims on the pool, continued
\* C31 (as claimed): once shutdown has returned the idle deque is empty, and
\* it stays empty whatever guard drops and push-back tasks run afterwards.
C31_IdleEmptyAfterShutdown == (sd_pc = "returned") => (connections = <<>>)

\* C31, side check: what shutdown does establish, the deque is empty in the
\* step in which clear() runs.
C31_ClearEmptiesDeque ==
    [][(sd_pc = "clear" /\ sd_pc' = "returned") => connections' = <<>>]_vars

\* C38: active_count is the number of guards handed out whose drop has not
\* yet run return_connection; it never goes below zero, and an acquire that
\* ends in an error leaves it as it was.
C38_ActiveCountIsGuardsOut ==
    /\ [](active_count = Cardinality(CountedGuards))
    /\ [](active_count >= 0)
    /\ [][\A p \in Clients :
            (/\ pc[p] \in {"idle", "acq_sem", "acq_pop", "acq_create"}
             /\ pc'[p] = "idle"
             /\ result'[p] \in {"Shutdown", "Timeout", "Connection"}
             /\ <<pc[p], result[p]>>' # <<pc[p], result[p]>>)
            => active_count' = active_count]_vars

\* C38 witness: one acquire has failed in create_connection while another
\* call holds a guard, and a guard has been dropped before.
C38_Witness ==
    /\ \E p \in Clients : pc[p] = "idle" /\ result[p] = "Connection"
    /\ \E p \in Clients : pc[p] = "holding"
    /\ active_count = 1
    /\ Len(connections) + Len(pushback) > 0

\* ===================================== claims on the packets, continued
\* C36 (as claimed): an AuthLogonChallengeRequest that decodes successfully
\* has an account_name of exactly account_name_len bytes, the bytes that
\* follow the length byte.
C36_AccountNameHasDeclaredLength ==
    (/\ a_pc = "converted"
     /\ a_req.kind = "AuthLogonChallengeRequest"
     /\ a_req.status = "Ok") =>
        /\ Len(a_req.account_name) = a_req.account_name_len
        /\ a_req.account_name =
               SubSeq(a_packet.payload, 34, 33 + a_req.account_name_len)

\* C36, side check: what the decoder yields, every byte after the length
\* byte, and the length byte as it came.
C36_AccountNameIsRestOfPayload ==
    (/\ a_pc = "converted"
     /\ a_req.kind = "AuthLogonChallengeRequest"
     /\ a_req.status = "Ok") =>
        /\ a_req.account_name_len = a_packet.payload[33]
        /\ Len(a_req.account_name) = Len(a_packet.payload) - 33

\* ============================ claims on the migration engine, continued
\* The versions of a sequence.
Range(q) == {q[i] : i \in 1..Len(q)}

StrictlyAscending(q) == \A i, j \in 1..Len(q) : i < j => q[i] < q[j]
StrictlyDescending(q) == \A i, j \in 1..Len(q) : i < j => q[i] > q[j]

\* The registered versions above lo and up to hi.
RegisteredIn(lo, hi) == {v \in DOMAIN migrations : lo < v /\ v <= hi}

\* C33: migrate_to applies exactly the registered migrations with
\* current < v <= target, in strictly ascending order, or reverts exactly
\* those with target < v <= current, in strictly descending order;
\* report.applied and report.reverted list the versions in that order, each
\* pushed in the step that commits it; a migration of the revert range that
\* has no down script makes migrate_to return an error.
C33_AppliesRangeInOrder ==
    /\ [](\A m \in Migrators :
            LET r == report[m]
                up == r.target_version >= r.initial_version
            IN /\ StrictlyAscending(r.applied)
               /\ StrictlyDescending(r.reverted)
               /\ Range(r.applied) \subseteq
                      RegisteredIn(r.initial_version, r.target_version)
               /\ Range(r.reverted) \subseteq
                      RegisteredIn(r.target_version, r.initial_version)
               /\ (m_pc[m] = "returned" /\ m_result[m] = "Ok") =>
                      /\ Range(r.applied) =
                             RegisteredIn(r.initial_version, r.target_version)
                      /\ Range(r.reverted) =
                             RegisteredIn(r.target_version, r.initial_version)
               /\ (/\ m_pc[m] = "returned"
                   /\ \E v \in RegisteredIn(r.target_version, r.initial_version) :
                          ~migrations[v].down)
                  => m_result[m] = "Err")
    /\ [][\A v \in Versions :
            records'[v] # records[v] =>
                \E m \in Migrators :
                    /\ m_pc[m] = "commit"
                    /\ IF records'[v] > records[v]
                         THEN report'[m].applied = Append(report[m].applied, v)
                         ELSE report'[m].reverted = Append(report[m].reverted, v)]_vars

\* C33 witness: a migrate_to has applied two migrations and a later one has
\* reverted both, the higher first, and returned Ok.
C33_Witness ==
    /\ m_pc[1] = "returned" /\ m_result[1] = "Ok"
    /\ Len(report[1].reverted) = 2
    /\ Recorded = {}

\* C33, second witness state: a revert has stopped at a migration that has no
\* down script, after reverting the one above it.
C33_MissingDownReached ==
    /\ m_pc[1] = "returned" /\ m_result[1] = "Err"
    /\ Len(report[1].reverted) = 1
    /\ \E v \in RegisteredIn(report[1].target_version, report[1].initial_version) :
           ~migrations[v].down

\* ==========================================================================
\* The split of S before the interleaved hash: as_split_slice of tc-core
\* against split_key of the older core crate.
\* ==========================================================================
MaxPrefix == 4
MaxKeyByte == 2

\* split_key, core/src/crypto/srp6.rs:176-181: the loop that drops the
\* leading two bytes while the first byte is 0 and two bytes are left.
RECURSIVE DropLeadingPairs(_)
DropLeadingPairs(bytes) ==
    IF Len(bytes) >= 2 /\ bytes[1] = 0
      THEN DropLeadingPairs(SubSeq(bytes, 3, Len(bytes)))
      ELSE bytes

\* split_key, core/src/crypto/srp6.rs:176-186: what the loop leaves, copied
\* to the front of a buffer of S_KEY_SIZE zero bytes.
split_key(s_key) ==
    LET slice == DropLeadingPairs(s_key) IN
      [i \in 1..S_KEY_SIZE |-> IF i <= Len(slice) THEN slice[i] ELSE 0]

\* The keys S split: every choice of the first MaxPrefix bytes, followed by
\* bytes that are all 0 or all 1.
SplitKeys ==
    {prefix \o [i \in 1..(S_KEY_SIZE - MaxPrefix) |-> t] :
        prefix \in [1..MaxPrefix -> 0..MaxKeyByte], t \in {0, 1}}

InitSplit ==
    /\ PoolUnused /\ CacheUnused /\ ServerNew /\ MigUnused /\ ExtUnused
    /\ AuthNew /\ AcctUnused /\ HealthUnused
    /\ srp_in \in [kind : {"split"}, s_key : SplitKeys]
    /\ srp_out = NoOutput

\* Both crates split the same S.
SplitApply ==
    /\ srp_in.kind = "split"
    /\ srp_out = NoOutput
    /\ srp_out' = [status |-> "Ok",
                   split_slice |-> AsSplitSlice(srp_in.s_key),
                   dropped |-> DropLeadingPairs(srp_in.s_key),
                   split_key |-> split_key(srp_in.s_key)]
    /\ UNCHANGED <<srp_in, nonSrpVars>>

NextSplit == SplitApply

SpecSplit == InitSplit /\ [][NextSplit]_vars

\* C34 (as claimed): for every S the result of as_split_slice is the buffer
\* got by dropping the leading two bytes while the first byte is 0 and two
\* bytes are left, also for [0, x, 0, y, ...] with x # 0 and for the all-zero
\* S.
C34_SplitSliceIsDroppedPairs ==
    (srp_in.kind = "split" /\ srp_out # NoOutput) =>
        /\ srp_out.split_slice.status = "Ok"
        /\ srp_out.split_slice.slice = srp_out.dropped

\* C34, side check: the two agree on every S whose zero bytes, if it starts
\* with any, are a run followed, at an even offset or one byte before it, by
\* a byte that is not 0.
C34_AgreeOnSingleRun ==
    (/\ srp_in.kind = "split" /\ srp_out # NoOutput
     /\ LeadZeros(srp_in.s_key, 0) # -1
     /\ LET lead == LeadZeros(srp_in.s_key, 0)
            even == IF lead % 2 # 0 THEN lead + 1 ELSE lead
        IN  even + 1 <= S_KEY_SIZE /\ srp_in.s_key[even + 1] # 0) =>
        /\ srp_out.split_slice.status = "Ok"
        /\ srp_out.split_slice.slice = srp_out.dropped

\* C34, side check: split_key keeps what the loop left at the front of its
\* S_KEY_SIZE bytes.
C34_SplitKeyIsPadded ==
    (srp_in.kind = "split" /\ srp_out # NoOutput) =>
        /\ Len(srp_out.split_key) = S_KEY_SIZE
        /\ SubSeq(srp_out.split_key, 1, Len(srp_out.dropped)) = srp_out.dropped

\* ==========================================================================
\* SignalWaiter::wait (core/src/platform/signal.rs:16-31) on the multi-thread
\* runtime of main: the main task and the spawned signal task run in
\* parallel, and signals arrive when they arrive.
\* ==========================================================================
MaxSignals == 3
MaxPolls == 3

\* wait, signal.rs:20-24: the notifier is cloned and the signal task spawned.
WaitSpawn ==
    /\ sw_process = "running"
    /\ sw_pc = "idle"
    /\ sw_pc' = "spawned"
    /\ sg_pc' = "start"
    /\ UNCHANGED <<sw_woken, sg_pending, sg_signals, sw_process, srv_polls, nonSigVars>>

\* wait, signal.rs:26-28: the task is pinned and select! creates the future
\* self.shutdown.notified(); from now on a notify_waiters wakes it.
WaitSelect ==
    /\ sw_process = "running"
    /\ sw_pc = "spawned"
    /\ sw_pc' = "select"
    /\ UNCHANGED <<sw_woken, sg_pc, sg_pending, sg_signals, sw_process, srv_polls, nonSigVars>>

\* select!, signal.rs:29: the server task is polled and is not finished (it
\* runs the accept loop).
ServerPoll ==
    /\ sw_process = "running"
    /\ sw_pc = "select"
    /\ srv_polls < MaxPolls
    /\ srv_polls' = srv_polls + 1
    /\ UNCHANGED <<sw_pc, sw_woken, sg_pc, sg_pending, sg_signals, sw_process, nonSigVars>>

\* select!, signal.rs:28: the notified branch is ready and wait returns,
\* dropping the server task.
WaitReturn ==
    /\ sw_process = "running"
    /\ sw_pc = "select"
    /\ sw_woken
    /\ sw_pc' = "returned"
    /\ UNCHANGED <<sw_woken, sg_pc, sg_pending, sg_signals, sw_process, srv_polls, nonSigVars>>

\* The signals wait_for_signal listens to.
Signals == {"SIGINT", "SIGTERM"}

\* The signals whose handler is installed: that of SIGINT by signal.rs:37,
\* that of SIGTERM by signal.rs:38; a handler stays installed when its
\* stream is dropped.
Handled == CASE sg_pc \in {"none", "start"} -> {}
             [] sg_pc = "sigint" -> {"SIGINT"}
             [] OTHER -> Signals

\* The signals that have a stream: from its creation until wait_for_signal
\* returns.
Streams == CASE sg_pc = "sigint" -> {"SIGINT"}
             [] sg_pc = "listening" -> Signals
             [] OTHER -> {}

\* wait_for_signal, signal.rs:37: the stream of SIGINT is made, which
\* installs the handler.
SignalInstallInt ==
    /\ sw_process = "running"
    /\ sg_pc = "start"
    /\ sg_pc' = "sigint"
    /\ UNCHANGED <<sw_pc, sw_woken, sg_pending, sg_signals, sw_process, srv_polls, nonSigVars>>

\* wait_for_signal, signal.rs:38: the stream of SIGTERM; then the select.
SignalInstallTerm ==
    /\ sw_process = "running"
    /\ sg_pc = "sigint"
    /\ sg_pc' = "listening"
    /\ UNCHANGED <<sw_pc, sw_woken, sg_pending, sg_signals, sw_process, srv_polls, nonSigVars>>

\* SIGINT or SIGTERM is delivered to the process after wait was called.
\* Without a handler the signal has its default action, the end of the
\* process; with one, the signal's stream gets it if there still is one.
SignalDeliver(sig) ==
    /\ sw_process = "running"
    /\ sw_pc # "idle"
    /\ sg_signals < MaxSignals
    /\ sg_signals' = sg_signals + 1
    /\ sw_process' = IF sig \in Handled THEN sw_process ELSE "killed"
    /\ sg_pending' = IF sig \in Streams THEN sg_pending \cup {sig} ELSE sg_pending
    /\ UNCHANGED <<sw_pc, sw_woken, sg_pc, srv_polls, nonSigVars>>

\* wait_for_signal, signal.rs:41-44: one of the recv() returns.
SignalRecv ==
    /\ sw_process = "running"
    /\ sg_pc = "listening"
    /\ sg_pending # {}
    /\ sg_pending' = {}
    /\ sg_pc' = "notify"
    /\ UNCHANGED <<sw_pc, sw_woken, sg_signals, sw_process, srv_polls, nonSigVars>>

\* The spawned task, signal.rs:23: notify_waiters wakes the Notified futures
\* that exist and stores nothing for later ones; the task ends.
SignalNotify ==
    /\ sw_process = "running"
    /\ sg_pc = "notify"
    /\ sw_woken' = (sw_pc = "select")
    /\ sg_pc' = "done"
    /\ UNCHANGED <<sw_pc, sg_pending, sg_signals, sw_process, srv_polls, nonSigVars>>

InitSignal == NonSigUnused /\ SignalNew

NextSignal ==
    \/ WaitSpawn
    \/ WaitSelect
    \/ ServerPoll
    \/ WaitReturn
    \/ SignalInstallInt
    \/ SignalInstallTerm
    \/ \E sig \in Signals : SignalDeliver(sig)
    \/ SignalRecv
    \/ SignalNotify

SpecSignal == InitSignal /\ [][NextSignal]_vars

\* Both tasks are scheduled by the runtime: each step they can take is
\* taken. Signals and the polls of the server task come as they come.
SpecSignalFair ==
    /\ SpecSignal
    /\ WF_vars(WaitSpawn) /\ WF_vars(WaitSelect) /\ WF_vars(WaitReturn)
    /\ WF_vars(SignalInstallInt) /\ WF_vars(SignalInstallTerm)
    /\ WF_vars(SignalRecv) /\ WF_vars(SignalNotify)

\* C35 (as claimed): once a signal was delivered after wait was called, wait
\* eventually returns (the process may also have ended by the signal),
\* whatever the interleaving of the signal task and the main task.
C35_SignalEndsWait ==
    (sg_signals > 0) ~> (sw_pc = "returned" \/ sw_process = "killed")

\* C35, side check: a notification that finds the Notified future of the
\* select ends the wait.
C35_NotifiedWaiterReturns == sw_woken ~> (sw_pc = "returned")

\* C35, side check: wait returns only after a signal was received.
C35_ReturnsOnlyAfterSignal == (sw_pc = "returned") => (sg_pc = "done" /\ sg_signals > 0)

\* ==========================================================================
\* The cache statistics of the pool: the counters of each connection's
\* PreparedStatementCache (cache.rs:55-67) and the totals return_connection
\* adds them to (pool.rs:133-141), read by stats (pool.rs:239-255).
\* ==========================================================================
NumStatSql == 2
MaxLookups == 2
MaxReturns == 2

StatSqls == 1..NumStatSql

\* acquire, pool.rs:117-130: an idle connection is popped, or, with none
\* idle, a new one is created, its cache new (connection.rs:17-25).
StatAcquire(c) ==
    /\ \/ cs_where[c] = "idle"
       \/ cs_where[c] = "none" /\ \A d \in StatConns : cs_where[d] # "idle"
    /\ cs_where' = [cs_where EXCEPT ![c] = "held"]
    /\ UNCHANGED <<cs_cached, cs_hits, cs_misses, total_cache_hits, total_cache_misses,
                   cs_lookups, cs_returned, cs_returns, nonStatVars>>

\* prepare_cached, connection.rs:35-52, on the connection of a guard:
\* cache.get counts a hit or a miss (cache.rs:55-67); after a miss the
\* statement is prepared and, unless that fails, inserted (the cache is
\* large enough for every text).
StatPrepareCached(c, sql, ok) ==
    /\ cs_where[c] = "held"
    /\ cs_lookups[c] < MaxLookups
    /\ cs_lookups' = [cs_lookups EXCEPT ![c] = @ + 1]
    /\ IF sql \in cs_cached[c]
         THEN /\ cs_hits' = [cs_hits EXCEPT ![c] = @ + 1]
              /\ UNCHANGED <<cs_misses, cs_cached>>
         ELSE /\ cs_misses' = [cs_misses EXCEPT ![c] = @ + 1]
              /\ cs_cached' = [cs_cached EXCEPT ![c] = IF ok THEN @ \cup {sql} ELSE @]
              /\ UNCHANGED cs_hits
    /\ UNCHANGED <<cs_where, total_cache_hits, total_cache_misses, cs_returned, cs_returns,
                   nonStatVars>>

\* The guard is dropped: return_connection, pool.rs:133-151, adds the
\* connection's cache_states() (the counters of its cache, cache.rs:90-102)
\* to the totals and the connection goes back to the deque.
StatReturn(c) ==
    /\ cs_where[c] = "held"
    /\ cs_returns[c] < MaxReturns
    /\ total_cache_hits' = total_cache_hits + cs_hits[c]
    /\ total_cache_misses' = total_cache_misses + cs_misses[c]
    /\ cs_returned' = [cs_returned EXCEPT ![c] = cs_lookups[c]]
    /\ cs_returns' = [cs_returns EXCEPT ![c] = @ + 1]
    /\ cs_where' = [cs_where EXCEPT ![c] = "idle"]
    /\ UNCHANGED <<cs_cached, cs_hits, cs_misses, cs_lookups, nonStatVars>>

InitStat == NonStatUnused /\ StatNew

NextStat ==
    \/ \E c \in StatConns : StatAcquire(c)
    \/ \E c \in StatConns, sql \in StatSqls, ok \in BOOLEAN : StatPrepareCached(c, sql, ok)
    \/ \E c \in StatConns : StatReturn(c)

SpecStat == InitStat /\ [][NextStat]_vars

\* The sum of f over the connections 1..n.
RECURSIVE SumTo(_, _)
SumTo(f, n) == IF n = 0 THEN 0 ELSE f[n] + SumTo(f, n - 1)

\* C39 (as claimed): cache_hits + cache_misses of the pool statistics is the
\* number of cache lookups made on pooled connections up to their last
\* return, each lookup counted once however often its connection was
\* acquired and returned.
C39_TotalsCountEachLookupOnce ==
    total_cache_hits + total_cache_misses = SumTo(cs_returned, NumStatConns)

\* C39, side check: the totals are right as long as no connection was
\* returned twice.
C39_RightUntilSecondReturn ==
    (\A c \in StatConns : cs_returns[c] <= 1) =>
        total_cache_hits + total_cache_misses = SumTo(cs_returned, NumStatConns)

\* C39, side check: each connection's own counters are its lookups.
C39_ConnectionCountersAreLookups ==
    \A c \in StatConns : cs_hits[c] + cs_misses[c] = cs_lookups[c]

\* ==========================================================================
\* The Server of the older core crate (core/src/server/server.rs) and the
\* tokio Mutex around its client list. The methods take &mut self or are
\* called by the owner: one call at a time, which may call another method.
\* ==========================================================================
\* A frame: the method, where it is (lock: awaiting clients.lock(); locked:
\* holding the guard; calling: inside a call it made; return: about to
\* return), its client_id and its result.
Frame(fn, arg) == [fn |-> fn, pc |-> "lock", arg |-> arg, ret |-> "Ok"]

Top == os_stack[Len(os_stack)]

\* The stack with its innermost frame replaced.
WithTop(f) == [os_stack EXCEPT ![Len(os_stack)] = f]

\* The ids in the client list.
Listed == {os_clients[i] : i \in 1..Len(os_clients)}

\* Client::is_alive, client.rs:22-24: neither task is finished.
IsAlive(c) == os_task[c] # "finished"

\* The methods the owner of the Server calls, with their client_id (0 when
\* they take none); listen_accept and listen_disconnected are the two
\* branches of the select! in listen.
OldCalls ==
    {<<"broadcast", 0>>, <<"cleanup_clients", 0>>, <<"shutdown", 0>>,
     <<"listen_disconnected", 0>>}
    \cup {<<fn, c>> : fn \in {"send_to_client", "disconnect_client"}, c \in OldClients}

\* A method is called: it clones the Arc and awaits clients.lock()
\* (server.rs:57-58, 66-67, 78-79, 93-94, 106-107); the dc_rx branch of
\* listen (48-51) calls cleanup_clients.
OldCall(k) ==
    /\ os_stack = <<>>
    /\ os_stack' = <<Frame(IF k[1] = "listen_disconnected" THEN "cleanup_clients" ELSE k[1],
                           k[2])>>
    /\ os_ret' = "none"
    /\ UNCHANGED <<os_clients, os_next_id, os_task, os_mutex, nonOldVars>>

\* listen, server.rs:40-43, with client_from_stream, 117-136: a connection is
\* accepted, the next id taken, the tasks of the client spawned; then the
\* list is locked.
OldAccept ==
    /\ os_stack = <<>>
    /\ os_next_id < NumOldClients
    /\ os_next_id' = os_next_id + 1
    /\ os_task' = [os_task EXCEPT ![os_next_id + 1] = "alive"]
    /\ os_stack' = <<Frame("listen_accept", os_next_id + 1)>>
    /\ os_ret' = "none"
    /\ UNCHANGED <<os_clients, os_mutex, nonOldVars>>

\* Mutex::lock().await is granted: the mutex is free (it is not reentrant).
OldLock ==
    /\ os_stack # <<>>
    /\ Top.pc = "lock"
    /\ os_mutex = 0
    /\ os_mutex' = Len(os_stack)
    /\ os_stack' = WithTop([Top EXCEPT !.pc = "locked"])
    /\ UNCHANGED <<os_clients, os_next_id, os_task, os_ret, nonOldVars>>

\* The body of a method under the guard.
\* listen, server.rs:44: the client is pushed.
\* broadcast, 60-62: every client is sent the data, errors ignored.
\* send_to_client, 69-74: the client is looked up; not found is an error,
\* and so is a send to a client whose write task is gone.
\* cleanup_clients, 96-102: the clients that are not alive are dropped.
\* shutdown, 110-114: every client is disconnected, the list cleared.
\* disconnect_client, 81-87: not found is an error returned with `?`;
\* otherwise the client's tasks are aborted (client.rs:26-29) and
\* cleanup_clients is called, the guard still held.
OldBody ==
    /\ os_stack # <<>>
    /\ Top.pc = "locked"
    /\ CASE Top.fn = "listen_accept" ->
              /\ os_clients' = Append(os_clients, Top.arg)
              /\ os_stack' = WithTop([Top EXCEPT !.pc = "return"])
              /\ UNCHANGED os_task
         [] Top.fn = "broadcast" ->
              /\ os_stack' = WithTop([Top EXCEPT !.pc = "return"])
              /\ UNCHANGED <<os_clients, os_task>>
         [] Top.fn = "send_to_client" ->
              /\ os_stack' = WithTop([Top EXCEPT !.pc = "return",
                     !.ret = IF Top.arg \in Listed /\ os_task[Top.arg] # "finished"
                               THEN "Ok" ELSE "Err"])
              /\ UNCHANGED <<os_clients, os_task>>
         [] Top.fn = "cleanup_clients" ->
              /\ os_clients' = SelectSeq(os_clients, IsAlive)
              /\ os_stack' = WithTop([Top EXCEPT !.pc = "return"])
              /\ UNCHANGED os_task
         [] Top.fn = "shutdown" ->
              /\ os_task' = [c \in OldClients |->
                     IF c \in Listed /\ os_task[c] = "alive" THEN "aborting" ELSE os_task[c]]
              /\ os_clients' = <<>>
              /\ os_stack' = WithTop([Top EXCEPT !.pc = "return"])
         [] Top.fn = "disconnect_client" ->
              IF Top.arg \in Listed
                THEN /\ os_task' = [os_task EXCEPT ![Top.arg] =
                            IF @ = "alive" THEN "aborting" ELSE @]
                     /\ os_stack' = Append(WithTop([Top EXCEPT !.pc = "calling"]),
                                           Frame("cleanup_clients", 0))
                     /\ UNCHANGED os_clients
                ELSE /\ os_stack' = WithTop([Top EXCEPT !.pc = "return", !.ret = "Err"])
                     /\ UNCHANGED <<os_clients, os_task>>
    /\ UNCHANGED <<os_next_id, os_mutex, os_ret, nonOldVars>>

\* The method returns: its guard, if it holds one, is dropped; the method
\* that called it goes on to its own return (server.rs:89), the outermost
\* one hands its result to the owner.
OldReturn ==
    /\ os_stack # <<>>
    /\ Top.pc = "return"
    /\ os_mutex' = IF os_mutex = Len(os_stack) THEN 0 ELSE os_mutex
    /\ IF Len(os_stack) = 1
         THEN /\ os_stack' = <<>>
              /\ os_ret' = Top.ret
         ELSE /\ os_stack' = [SubSeq(os_stack, 1, Len(os_stack) - 1)
                                EXCEPT ![Len(os_stack) - 1].pc = "return"]
              /\ UNCHANGED os_ret
    /\ UNCHANGED <<os_clients, os_next_id, os_task, nonOldVars>>

\* The tasks of a client end: the peer closed the connection
\* (client.rs:41-43, 59), or the abort of disconnect has taken effect.
OldTaskEnds(c) ==
    /\ os_task[c] \in {"alive", "aborting"}
    /\ os_task' = [os_task EXCEPT ![c] = "finished"]
    /\ UNCHANGED <<os_clients, os_next_id, os_mutex, os_stack, os_ret, nonOldVars>>

InitOld == NonOldUnused /\ OldServerNew

NextOld ==
    \/ \E k \in OldCalls : OldCall(k)
    \/ OldAccept
    \/ OldLock
    \/ OldBody
    \/ OldReturn
    \/ \E c \in OldClients : OldTaskEnds(c)

SpecOld == InitOld /\ [][NextOld]_vars

\* A call that can go on does go on.
SpecOldFair == SpecOld /\ WF_vars(OldLock) /\ WF_vars(OldBody) /\ WF_vars(OldReturn)

\* C40 (as claimed): disconnect_client(id) for a client of the list
\* eventually returns Ok, and no call of a method waits forever on the
\* clients mutex.
C40_CallsReturn ==
    /\ \A c \in OldClients :
          (/\ Len(os_stack) = 1 /\ os_stack[1].fn = "disconnect_client"
           /\ os_stack[1].arg = c /\ os_stack[1].pc = "locked" /\ c \in Listed)
          ~> (os_stack = <<>> /\ os_ret = "Ok")
    /\ (os_stack # <<>> /\ Top.pc = "lock") ~> (os_stack = <<>> \/ Top.pc # "lock")

\* C40, side check: the calls other than disconnect_client of a listed
\* client do return.
C40_OtherCallsReturn ==
    (/\ Len(os_stack) = 1
     /\ ~(os_stack[1].fn = "disconnect_client" /\ os_stack[1].arg \in Listed))
    ~> (os_stack = <<>>)

\* C40, side check: a disconnect_client that found its client never gets
\* the lock for cleanup_clients.
C40_CleanupInsideDisconnectWaits ==
    Len(os_stack) = 2 => (Top.fn = "cleanup_clients" /\ Top.pc = "lock" /\ os_mutex = 1)

\* ==========================================================================
\* acquire (pool.rs:96-131) next to run_health_check (pool.rs:214-237): both
\* lock the Mutex of the idle deque, the health check across its probes.
\* ==========================================================================
\* acquire, pool.rs:97-102: the shutdown flag is read first.
LockEnter(p) ==
    /\ al_pc[p] = "idle"
    /\ IF al_shutdown
         THEN /\ al_result' = [al_result EXCEPT ![p] = "Shutdown"]
              /\ UNCHANGED al_pc
         ELSE /\ al_pc' = [al_pc EXCEPT ![p] = "sem"]
              /\ al_result' = [al_result EXCEPT ![p] = "none"]
    /\ UNCHANGED <<al_permits, al_deque, al_mutex, al_hc, al_todo, al_healthy, al_push,
                   al_created, al_shutdown, nonLockVars>>

\* acquire, pool.rs:104-115: a permit is there before acquire_timeout is over.
LockPermit(p) ==
    /\ al_pc[p] = "sem"
    /\ al_permits > 0
    /\ al_permits' = al_permits - 1
    /\ al_pc' = [al_pc EXCEPT ![p] = "lock"]
    /\ UNCHANGED <<al_result, al_deque, al_mutex, al_hc, al_todo, al_healthy, al_push,
                   al_created, al_shutdown, nonLockVars>>

\* acquire, pool.rs:104-114: acquire_timeout is over first.
LockSemTimeout(p) ==
    /\ al_pc[p] = "sem"
    /\ al_pc' = [al_pc EXCEPT ![p] = "idle"]
    /\ al_result' = [al_result EXCEPT ![p] = "Timeout"]
    /\ UNCHANGED <<al_permits, al_deque, al_mutex, al_hc, al_todo, al_healthy, al_push,
                   al_created, al_shutdown, nonLockVars>>

\* acquire, pool.rs:117: `self.connections.lock().await.pop_front()`, with
\* no timeout around it: the call goes on when the Mutex is free. With a
\* connection popped the guard is returned (126-130), with none
\* create_connection is awaited.
LockPop(p) ==
    /\ al_pc[p] = "lock"
    /\ al_mutex = "free"
    /\ IF al_deque > 0
         THEN /\ al_deque' = al_deque - 1
              /\ al_pc' = [al_pc EXCEPT ![p] = "guard"]
              /\ al_result' = [al_result EXCEPT ![p] = "Guard"]
         ELSE /\ al_pc' = [al_pc EXCEPT ![p] = "create"]
              /\ UNCHANGED <<al_deque, al_result>>
    /\ UNCHANGED <<al_permits, al_mutex, al_hc, al_todo, al_healthy, al_push, al_created,
                   al_shutdown, nonLockVars>>

\* acquire, pool.rs:118-130, create_connection, 174-201: the connection is
\* made within acquire_timeout and the guard returned.
LockCreate(p) ==
    /\ al_pc[p] = "create"
    /\ al_created < LockMaxCreated
    /\ al_created' = al_created + 1
    /\ al_pc' = [al_pc EXCEPT ![p] = "guard"]
    /\ al_result' = [al_result EXCEPT ![p] = "Guard"]
    /\ UNCHANGED <<al_permits, al_deque, al_mutex, al_hc, al_todo, al_healthy, al_push,
                   al_shutdown, nonLockVars>>

\* create_connection fails or runs into acquire_timeout (pool.rs:182-188):
\* acquire returns the error, its permit is dropped.
LockCreateFail(p, kind) ==
    /\ al_pc[p] = "create"
    /\ al_pc' = [al_pc EXCEPT ![p] = "idle"]
    /\ al_result' = [al_result EXCEPT ![p] = kind]
    /\ al_permits' = al_permits + 1
    /\ UNCHANGED <<al_deque, al_mutex, al_hc, al_todo, al_healthy, al_push, al_created,
                   al_shutdown, nonLockVars>>

\* The guard is dropped: return_connection, pool.rs:133-151, spawns the
\* push-back task unless the pool is shut down; the permit is released.
LockGuardDrop(p) ==
    /\ al_pc[p] = "guard"
    /\ al_pc' = [al_pc EXCEPT ![p] = "idle"]
    /\ al_push' = IF al_shutdown THEN al_push ELSE al_push + 1
    /\ al_permits' = al_permits + 1
    /\ UNCHANGED <<al_result, al_deque, al_mutex, al_hc, al_todo, al_healthy, al_created,
                   al_shutdown, nonLockVars>>

\* The push-back task, pool.rs:148-150: lock, push_back.
LockPushBack ==
    /\ al_push > 0
    /\ al_mutex = "free"
    /\ al_push' = al_push - 1
    /\ al_deque' = al_deque + 1
    /\ UNCHANGED <<al_pc, al_result, al_permits, al_mutex, al_hc, al_todo, al_healthy,
                   al_created, al_shutdown, nonLockVars>>

\* health_check_loop, pool.rs:204-208: the sleep of the interval is over and
\* run_health_check is called.
LockHealthWake ==
    /\ al_hc = "sleep"
    /\ ~al_shutdown
    /\ al_hc' = "lock"
    /\ UNCHANGED <<al_pc, al_result, al_permits, al_deque, al_mutex, al_todo, al_healthy,
                   al_push, al_created, al_shutdown, nonLockVars>>

\* run_health_check, pool.rs:215-216: the deque is locked; the guard lives
\* to the end of the function.
LockHealthLock ==
    /\ al_hc = "lock"
    /\ al_mutex = "free"
    /\ al_mutex' = "health"
    /\ al_hc' = "probe"
    /\ al_todo' = al_deque
    /\ al_deque' = 0
    /\ al_healthy' = 0
    /\ UNCHANGED <<al_pc, al_result, al_permits, al_push, al_created, al_shutdown,
                   nonLockVars>>

\* run_health_check, pool.rs:218-234: the next connection is popped; it is
\* dropped (past the idle timeout, or its probe failed) or its SELECT 1
\* succeeded and it is kept. The probe has no timeout: this step is taken
\* when, and if, the server answers.
LockHealthProbe(keep) ==
    /\ al_hc = "probe"
    /\ al_todo > 0
    /\ al_todo' = al_todo - 1
    /\ al_healthy' = IF keep THEN al_healthy + 1 ELSE al_healthy
    /\ UNCHANGED <<al_pc, al_result, al_permits, al_deque, al_mutex, al_hc, al_push,
                   al_created, al_shutdown, nonLockVars>>

\* run_health_check, pool.rs:236-237: the deque becomes `healthy`, the guard
\* is dropped.
LockHealthDone ==
    /\ al_hc = "probe"
    /\ al_todo = 0
    /\ al_deque' = al_healthy
    /\ al_healthy' = 0
    /\ al_mutex' = "free"
    /\ al_hc' = "sleep"
    /\ UNCHANGED <<al_pc, al_result, al_permits, al_todo, al_push, al_created, al_shutdown,
                   nonLockVars>>

\* shutdown, pool.rs:154: the flag is stored.
LockShutdown ==
    /\ ~al_shutdown
    /\ al_shutdown' = TRUE
    /\ UNCHANGED <<al_pc, al_result, al_permits, al_deque, al_mutex, al_hc, al_todo,
                   al_healthy, al_push, al_created, nonLockVars>>

InitLock == NonLockUnused /\ LockNew

NextLock ==
    \/ \E p \in LockClients : LockEnter(p)
    \/ \E p \in LockClients : LockPermit(p)
    \/ \E p \in LockClients : LockSemTimeout(p)
    \/ \E p \in LockClients : LockPop(p)
    \/ \E p \in LockClients : LockCreate(p)
    \/ \E p \in LockClients, kind \in {"Connection", "Timeout"} : LockCreateFail(p, kind)
    \/ \E p \in LockClients : LockGuardDrop(p)
    \/ LockPushBack
    \/ LockHealthWake
    \/ LockHealthLock
    \/ \E keep \in BOOLEAN : LockHealthProbe(keep)
    \/ LockHealthDone
    \/ LockShutdown

SpecLock == InitLock /\ [][NextLock]_vars

\* The timers of acquire fire and the tasks are scheduled: a waiting acquire
\* gets its permit or its timeout, takes the lock when it is free, and
\* create_connection ends; the health check takes the lock when it is free
\* and ends when its probes are done. Nothing makes a probe complete.
SpecLockFair ==
    /\ SpecLock
    /\ \A p \in LockClients :
          /\ WF_vars(LockPermit(p) \/ LockSemTimeout(p))
          /\ SF_vars(LockPop(p))
          /\ WF_vars(LockCreate(p) \/ \E kind \in {"Connection", "Timeout"} : LockCreateFail(p, kind))
    /\ WF_vars(LockHealthLock) /\ WF_vars(LockHealthDone) /\ WF_vars(LockPushBack)

\* An acquire is inside one of its awaits.
LockAwaiting(p) == al_pc[p] \in {"sem", "lock", "create"}

\* C32 (as claimed): every await of acquire is bounded by acquire_timeout,
\* so each call of acquire eventually returns a guard or an error, also
\* while a health check holds the lock of the deque on a probe that never
\* completes.
C32_AcquireReturns ==
    \A p \in LockClients : LockAwaiting(p) ~> ~LockAwaiting(p)

\* C32, side check: the two awaits that are under acquire_timeout, the wait
\* for the permit and create_connection, do end.
C32_TimedAwaitsEnd ==
    \A p \in LockClients : (al_pc[p] \in {"sem", "create"}) ~> (al_pc[p] \notin {"sem", "create"})

\* C32, side check: an acquire past its permit waits only while the health
\* check holds the lock.
C32_WaitsOnlyForHealthCheck ==
    \A p \in LockClients : (al_pc[p] = "lock") ~> (al_pc[p] # "lock" \/ al_mutex = "health")

\* ==========================================================================
\* The ConnectionRegistry (server/connection.rs:24-75) with the RwLock as
\* tokio has it: fair, the tasks awaiting the lock are served first come
\* first, so a read request that comes after a waiting writer waits too.
\* The peer of connection StalledConn may stop reading.
\* ==========================================================================
StalledConn == CHOOSE c \in StallConns : \A d \in StallConns : c <= d

\* The registry calls of a handler: broadcast_all, and send_to each id.
StallCalls ==
    {[kind |-> "all", target |-> 0]}
    \cup {[kind |-> "send_to", target |-> t] : t \in StallConns}

\* The handles a call sends to, given the map it iterates over
\* (connection.rs:59-66 and 68-75).
StallTargets(k, reg) == IF k.kind = "all" THEN reg ELSE reg \cap {k.target}

\* handle_connection, server.rs:189-193 and 199: register, unregister; each
\* awaits `self.connections.write()` (connection.rs:41, 52).
StallWriteRequest(c) ==
    /\ rs_pc[c] \in {"new", "reading"}
    /\ rs_pc' = [rs_pc EXCEPT ![c] = IF @ = "new" THEN "reg_wait" ELSE "unreg_wait"]
    /\ rs_waitq' = Append(rs_waitq, <<c, "w">>)
    /\ UNCHANGED <<rs_map, rs_chan, rs_reading, rs_readers, rs_call, nonStallVars>>

\* The write guard is granted to the first waiter when no guard is out; the
\* entry is inserted (connection.rs:41-48) or removed (52) and the guard
\* dropped.
StallWriteGrant(c) ==
    /\ rs_waitq # <<>>
    /\ Head(rs_waitq) = <<c, "w">>
    /\ rs_readers = {}
    /\ rs_waitq' = Tail(rs_waitq)
    /\ rs_map' = IF rs_pc[c] = "reg_wait" THEN rs_map \cup {c} ELSE rs_map \ {c}
    /\ rs_pc' = [rs_pc EXCEPT ![c] = IF @ = "reg_wait" THEN "reading" ELSE "closed"]
    /\ UNCHANGED <<rs_chan, rs_reading, rs_readers, rs_call, nonStallVars>>

\* The handler of c calls send_to or broadcast_all, which awaits
\* `self.connections.read()` (connection.rs:60, 69).
StallCallStart(c, k) ==
    /\ rs_pc[c] = "reading"
    /\ rs_pc' = [rs_pc EXCEPT ![c] = "call_wait"]
    /\ rs_call' = [rs_call EXCEPT ![c] = [kind |-> k.kind, target |-> k.target, todo |-> {}]]
    /\ rs_waitq' = Append(rs_waitq, <<c, "r">>)
    /\ UNCHANGED <<rs_map, rs_chan, rs_reading, rs_readers, nonStallVars>>

\* The read guard is granted to the first waiter (no write guard is ever
\* out between two steps); the call starts to iterate over the map.
StallReadGrant(c) ==
    /\ rs_waitq # <<>>
    /\ Head(rs_waitq) = <<c, "r">>
    /\ rs_waitq' = Tail(rs_waitq)
    /\ rs_readers' = rs_readers \cup {c}
    /\ rs_pc' = [rs_pc EXCEPT ![c] = "sending"]
    /\ rs_call' = [rs_call EXCEPT ![c].todo = StallTargets(rs_call[c], rs_map)]
    /\ UNCHANGED <<rs_map, rs_chan, rs_reading, nonStallVars>>

\* One `handle.sender.send(bytes).await` (connection.rs:62, 71): the frame is
\* buffered when the channel has room; the call is suspended while it is
\* full, its read guard alive.
StallSend(c, t) ==
    /\ rs_pc[c] = "sending"
    /\ t \in rs_call[c].todo
    /\ rs_chan[t] < ChanCap
    /\ rs_chan' = [rs_chan EXCEPT ![t] = @ + 1]
    /\ rs_call' = [rs_call EXCEPT ![c].todo = @ \ {t}]
    /\ UNCHANGED <<rs_map, rs_reading, rs_readers, rs_waitq, rs_pc, nonStallVars>>

\* The call returns Ok(()) (connection.rs:65, 74) and its read guard is
\* dropped.
StallCallDone(c) ==
    /\ rs_pc[c] = "sending"
    /\ rs_call[c].todo = {}
    /\ rs_readers' = rs_readers \ {c}
    /\ rs_pc' = [rs_pc EXCEPT ![c] = "reading"]
    /\ rs_call' = [rs_call EXCEPT ![c] = IdleCall]
    /\ UNCHANGED <<rs_map, rs_chan, rs_reading, rs_waitq, nonStallVars>>

\* write_loop, server.rs:231-233: a frame is received from the channel and
\* written to the socket, which the peer reads.
StallWrite(c) ==
    /\ rs_reading[c]
    /\ rs_chan[c] > 0
    /\ rs_chan' = [rs_chan EXCEPT ![c] = @ - 1]
    /\ UNCHANGED <<rs_map, rs_reading, rs_readers, rs_waitq, rs_pc, rs_call, nonStallVars>>

\* The peer of StalledConn stops reading: write_all of its write_loop does
\* not return any more.
StallPeerStops ==
    /\ rs_reading[StalledConn]
    /\ rs_reading' = [rs_reading EXCEPT ![StalledConn] = FALSE]
    /\ UNCHANGED <<rs_map, rs_chan, rs_readers, rs_waitq, rs_pc, rs_call, nonStallVars>>

InitStall == NonStallUnused /\ StallNew

NextStall ==
    \/ \E c \in StallConns : StallWriteRequest(c)
    \/ \E c \in StallConns : StallWriteGrant(c)
    \/ \E c \in StallConns, k \in StallCalls : StallCallStart(c, k)
    \/ \E c \in StallConns : StallReadGrant(c)
    \/ \E c, t \in StallConns : StallSend(c, t)
    \/ \E c \in StallConns : StallCallDone(c)
    \/ \E c \in StallConns : StallWrite(c)
    \/ StallPeerStops

SpecStall == InitStall /\ [][NextStall]_vars

\* The steps of the task of connection c that wait for the lock or for a
\* channel.
StallTask(c) ==
    \/ StallWriteGrant(c)
    \/ StallReadGrant(c)
    \/ \E t \in StallConns : StallSend(c, t)
    \/ StallCallDone(c)

\* The lock and the channels serve their waiters in turn, so a task that
\* can go on again and again does go on; the frames of a peer that reads
\* are written.
SpecStallFair ==
    /\ SpecStall
    /\ \A c \in StallConns : SF_vars(StallTask(c)) /\ WF_vars(StallWrite(c))

\* Connection c waits for the write guard of register or unregister.
StallWaitsToWrite(c) == rs_pc[c] \in {"reg_wait", "unreg_wait"}

\* Connection c is in a call that does not target StalledConn.
StallCallsOthers(c) ==
    /\ rs_pc[c] \in {"call_wait", "sending"}
    /\ rs_call[c].kind = "send_to"
    /\ rs_call[c].target # StalledConn

\* C37 (as claimed): a connection whose channel is full and whose peer does
\* not read cannot block the registry for the others: every register and
\* unregister of another connection, and every send_to that does not target
\* it, still eventually completes.
C37_StalledPeerBlocksNobody ==
    \A c \in StallConns \ {StalledConn} :
        (StallWaitsToWrite(c) \/ StallCallsOthers(c))
        ~> ~(StallWaitsToWrite(c) \/ StallCallsOthers(c))

\* C37, side check: as long as every peer reads, every call on the registry
\* completes.
C37_CompletesWhilePeersRead ==
    \A c \in StallConns :
        (rs_pc[c] \in {"reg_wait", "unreg_wait", "call_wait", "sending"})
        ~> (rs_pc[c] \in {"reading", "closed"} \/ ~rs_reading[StalledConn])

====
